---- MODULE Spec2Model ----
(***************************************************************************)
(* bmXr: the grip-and-trick state machinery.                               *)
(*                                                                         *)
(*   GripSystem       src/src/mechanics/GripSystem.ts  (class at line 506) *)
(*   BarspinMechanic  src/src/context.ts               (class at line 339) *)
(*   Context.onAnimate  src/src/context.ts:194                             *)
(*                                                                         *)
(* Units.  Times are milliseconds, as in the source (performance.now(),    *)
(* setTimeout delays).  Distances are millimetres (the source uses metres:  *)
(* 0.1 m = 100, 0.08 m = 80).  spinProgress is kept as the numerator of     *)
(* the fraction spinProgress / spinDuration, so that the comparison with    *)
(* 0.8 is exact; currentRotation is in degrees (targetRotation = 2*pi =    *)
(* 360).  Haptic intensities are percentages (0.3 = 30).                    *)
(***************************************************************************)
EXTENDS Integers, Sequences, FiniteSets, TLC

VARIABLES
    now,            \* performance.now(), ms
    gripZone,       \* GripSystem.leftGripZone / rightGripZone, per hand
    controller,     \* XrInput._leftHandController / _rightHandController present
    grip,           \* GripSystem.leftHandGrip / rightHandGrip (HandGripData)
    mech,           \* the fields of BarspinMechanic
    timers,         \* pending setTimeout(resetToReady) callbacks, in scheduling order
    emitted,        \* mechanic events emitted by the last step, in order
    gripEmitted,    \* grip events emitted by the last step, in order
    vibrations,     \* haptic pulses requested by the last step, in order
    writes,         \* value-changing writes of _state made by the last step
    attemptLog,     \* mechanic events (other than stateChange) since the last `initiated`
    manualResets,   \* number of external calls of the public resetToReady()
    call,           \* the calls made so far by the unit harness
    lastGripEvent,  \* per hand, the last gripStart/gripEnd and the last
                    \* enterProximity/exitProximity emitted (SpecGrip only)
    bus,            \* an emitter's listener arrays and its last emission
                    \* (SpecListeners only)
    runs,           \* two runs of the program side by side, fed the same poses,
                    \* buttons and clock (SpecPair only)
    steer           \* the controllers' world positions at the last frame and
                    \* Context.targetHandlebarRotation (SpecSteer only)

vars == <<now, gripZone, controller, grip, mech, timers, emitted, gripEmitted,
          vibrations, writes, attemptLog, manualResets, call, lastGripEvent,
          bus, runs, steer>>

(***************************************************************************)
(* Bounds of the model                                                     *)
(***************************************************************************)
TickMs == 250
MaxTime == 2750
MaxTimerLate == 0
MaxManualResets == 1
MaxCalls == 2
MaxListeners == 2

(***************************************************************************)
(* Values                                                                  *)
(***************************************************************************)
NULL == "null"
Hands == {"left", "right"}
HandSeq == <<"left", "right">>

READY == "READY"
INITIATED == "INITIATED"
SPINNING == "SPINNING"
CATCH_WINDOW == "CATCH_WINDOW"
CAUGHT == "CAUGHT"
FAILED == "FAILED"
BarspinState == {READY, INITIATED, SPINNING, CATCH_WINDOW, CAUGHT, FAILED}

IDLE == "IDLE"
NEAR == "NEAR"
GRIPPING == "GRIPPING"
GripState == {IDLE, NEAR, GRIPPING}

\* GripSystem configuration (mm)
proximityThreshold == 100
grabThreshold == 80
\* the initial HandGripData.distance (Infinity)
InfiniteDistance == 1000000

\* BarspinMechanic.config
initiationTimeout == 500
catchWindowDuration == 400
failureResetDelay == 1500
successResetDelay == 2000
\* the local spinDuration of updateSpinningState / updateCatchWindowState
spinDuration == 600
\* targetRotation, degrees
targetRotation == 360

\* controller-to-grip distances fed to a frame: inside the grab threshold,
\* between the two thresholds, outside the proximity threshold
Distances == {50, 90, 120}
\* the poses and grip-button states a controller presents to a frame
Inputs ==
    {[distance |-> 50, squeeze |-> TRUE], [distance |-> 50, squeeze |-> FALSE],
     [distance |-> 90, squeeze |-> TRUE], [distance |-> 120, squeeze |-> FALSE]}

NoZone == [present |-> FALSE, proximityThreshold |-> 0, grabThreshold |-> 0]

otherHandOf(hand) == IF hand = "left" THEN "right" ELSE "left"

(***************************************************************************)
(* Initial field values                                                    *)
(***************************************************************************)
\* two of the event types of an emitter
EventTypes == {"gripStart", "gripEnd"}

\* no listener registered, nothing emitted yet
NoBus ==
    [listeners |-> [t \in EventTypes |-> <<>>],
     type |-> NULL, before |-> <<>>, calls |-> <<>>]

createHandGripData ==
    [state |-> IDLE, isNear |-> FALSE,
     distance |-> InfiniteDistance,
     gripButtonPressed |-> FALSE,
     isAttached |-> FALSE, attachedSide |-> NULL, attachmentOffset |-> 0]

InitMech ==
    [state |-> READY, previousState |-> READY,
     spinDirection |-> NULL, spinStartTime |-> 0, spinProgress |-> 0,
     currentRotation |-> 0, initiatingHand |-> NULL, initiationStartTime |-> 0,
     catchWindowStartTime |-> 0, firstCatchHand |-> NULL]

NoCall == <<>>

\* the two entries of BarspinMechanic.config that no method reads:
\* minRotationVelocity in 1/100 rad/s, catchWindowAngleMargin in degrees
config == [minRotationVelocity |-> 150, catchWindowAngleMargin |-> 30]

\* XrMechanicalControllerInput._yawVelocity as constructed, 1/100 rad/s
NoYaw == 0

\* the runs of the program kept side by side
RunIds == {1, 2}

NoRuns ==
    [i \in RunIds |->
        [config |-> config, flick |-> NoYaw,
         grip |-> [h \in Hands |-> createHandGripData], mech |-> InitMech,
         timers |-> <<>>, emitted |-> <<>>]]

\* Context.maxHandlebarRotation, in degrees (Math.PI / 2)
maxHandlebarRotation == 90

\* a THREE.Vector3, in centimetres
Vec(x, y, z) == [x |-> x, y |-> y, z |-> z]

\* no frame yet: targetHandlebarRotation as constructed
NoSteer ==
    [position |-> [h \in Hands |-> Vec(0, 0, 0)], targetHandlebarRotation |-> 0]

(***************************************************************************)
(* The world threaded through one handler: the mutable objects plus what   *)
(* the handler has emitted, requested and scheduled so far.                *)
(***************************************************************************)
World ==
    [now |-> now, grip |-> grip, mech |-> mech, timers |-> timers,
     emitted |-> <<>>, gripEmitted |-> <<>>, vibrations |-> <<>>, writes |-> <<>>,
     config |-> config, yaw |-> NoYaw]

Event(type, prev, cur, hand) ==
    [type |-> type, previousState |-> prev, currentState |-> cur, hand |-> hand]

(***************************************************************************)
(* Sequencing.  Then(v, F) is F applied to the value of v: the statements   *)
(* of a handler run one after the other, each on the result of the one      *)
(* before.                                                                  *)
(***************************************************************************)
Then(v, F(_)) == CHOOSE r \in {F(x) : x \in {v}} : TRUE

(***************************************************************************)
(* GripSystem queries                                                      *)
(***************************************************************************)
isHandAttached(W, hand) == W.grip[hand].isAttached

areBothHandsAttached(W) == W.grip["left"].isAttached /\ W.grip["right"].isAttached

(***************************************************************************)
(* BarspinMechanic                                                         *)
(***************************************************************************)
\* a table with one edge too many: READY -> SPINNING
isValidTransitionExtraEdge(from, to) ==
    \/ <<from, to>> = <<READY, SPINNING>>
    \/ <<from, to>> \in {<<READY, INITIATED>>, <<INITIATED, SPINNING>>,
                         <<INITIATED, READY>>, <<INITIATED, FAILED>>,
                         <<SPINNING, CATCH_WINDOW>>, <<SPINNING, FAILED>>,
                         <<CATCH_WINDOW, CAUGHT>>, <<CATCH_WINDOW, FAILED>>,
                         <<CAUGHT, READY>>, <<FAILED, READY>>}

isValidTransition(from, to) ==
    LET validTransitions ==
            [s \in BarspinState |->
                CASE s = READY -> {INITIATED}
                  [] s = INITIATED -> {SPINNING, READY, FAILED}
                  [] s = SPINNING -> {CATCH_WINDOW, FAILED}
                  [] s = CATCH_WINDOW -> {CAUGHT, FAILED}
                  [] s = CAUGHT -> {READY}
                  [] s = FAILED -> {READY}]
    IN  to \in validTransitions[from]

\* BarspinMechanic.emitEvent: the listeners of the mechanic are outside the
\* core; the emission is recorded in order.
emitEvent(W, event) == [W EXCEPT !.emitted = Append(@, event)]

setState(W, newState) ==
    IF newState = W.mech.state THEN W
    ELSE IF ~isValidTransition(W.mech.state, newState) THEN W
    ELSE [W EXCEPT !.mech.previousState = W.mech.state,
                   !.mech.state = newState,
                   !.writes = Append(@, [from |-> W.mech.state, to |-> newState,
                                         validated |-> TRUE]),
                   !.emitted = Append(@, Event("stateChange", W.mech.state,
                                               newState, NULL))]

\* the reset forgets the hand of the first catch
resetToReadyKeepsCatchHand(W) ==
    [W EXCEPT !.mech = [state |-> READY, previousState |-> READY,
                        spinDirection |-> NULL, spinStartTime |-> 0,
                        spinProgress |-> 0, currentRotation |-> 0,
                        initiatingHand |-> NULL, initiationStartTime |-> 0,
                        catchWindowStartTime |-> 0,
                        firstCatchHand |-> W.mech.firstCatchHand],
              !.writes = IF W.mech.state = READY THEN @
                         ELSE Append(@, [from |-> W.mech.state, to |-> READY,
                                         validated |-> FALSE])]

\* the reset lets go of the bars as well
resetToReadyDetaches(W) ==
    [W EXCEPT !.mech = [state |-> READY, previousState |-> READY,
                        spinDirection |-> NULL, spinStartTime |-> 0,
                        spinProgress |-> 0, currentRotation |-> 0,
                        initiatingHand |-> NULL, initiationStartTime |-> 0,
                        catchWindowStartTime |-> 0, firstCatchHand |-> NULL],
              !.grip = [h \in Hands |->
                           [W.grip[h] EXCEPT !.isAttached = FALSE,
                                             !.attachedSide = NULL]],
              !.writes = IF W.mech.state = READY THEN @
                         ELSE Append(@, [from |-> W.mech.state, to |-> READY,
                                         validated |-> FALSE])]

resetToReady(W) ==
    [W EXCEPT !.mech = [state |-> READY, previousState |-> READY,
                        spinDirection |-> NULL, spinStartTime |-> 0,
                        spinProgress |-> 0, currentRotation |-> 0,
                        initiatingHand |-> NULL, initiationStartTime |-> 0,
                        catchWindowStartTime |-> 0, firstCatchHand |-> NULL],
              !.writes = IF W.mech.state = READY THEN @
                         ELSE Append(@, [from |-> W.mech.state, to |-> READY,
                                         validated |-> FALSE])]

\* setTimeout(() => this.resetToReady(), delay)
setTimeout(W, delay) ==
    [W EXCEPT !.timers = Append(@, [due |-> W.now + delay, delay |-> delay])]

\* a release in READY initiates without asking whether the other hand holds on
onGripReleasedUnchecked(W, hand) ==
    CASE W.mech.state = READY ->
            IF areBothHandsAttached(W) = FALSE
            THEN Then([W EXCEPT !.mech.initiatingHand = hand,
                                !.mech.initiationStartTime = W.now],
                 LAMBDA W1 : Then(setState(W1, INITIATED),
                 LAMBDA W2 : emitEvent(W2, Event("initiated", NULL, W2.mech.state, hand))))
            ELSE W
      [] W.mech.state = INITIATED ->
            Then([W EXCEPT !.mech.spinStartTime = W.now,
                           !.mech.spinProgress = 0,
                           !.mech.currentRotation = 0,
                           !.mech.spinDirection =
                               IF W.mech.initiatingHand = "right"
                               THEN "clockwise" ELSE "counterclockwise"],
            LAMBDA W1 : Then(setState(W1, SPINNING),
            LAMBDA W2 : emitEvent(W2, Event("spinning", NULL, W2.mech.state, NULL))))
      [] OTHER -> W

\* the spin always turns clockwise
onGripReleasedClockwise(W, hand) ==
    CASE W.mech.state = READY ->
            IF areBothHandsAttached(W) = FALSE
               /\ isHandAttached(W, otherHandOf(hand))
            THEN Then([W EXCEPT !.mech.initiatingHand = hand,
                                !.mech.initiationStartTime = W.now],
                 LAMBDA W1 : Then(setState(W1, INITIATED),
                 LAMBDA W2 : emitEvent(W2, Event("initiated", NULL, W2.mech.state, hand))))
            ELSE W
      [] W.mech.state = INITIATED ->
            Then([W EXCEPT !.mech.spinStartTime = W.now,
                           !.mech.spinProgress = 0,
                           !.mech.currentRotation = 0,
                           !.mech.spinDirection = "clockwise"],
            LAMBDA W1 : Then(setState(W1, SPINNING),
            LAMBDA W2 : emitEvent(W2, Event("spinning", NULL, W2.mech.state, NULL))))
      [] OTHER -> W

\* the spin starts only after a flick of at least minRotationVelocity
onGripReleasedNeedsVelocity(W, hand) ==
    CASE W.mech.state = READY ->
            IF areBothHandsAttached(W) = FALSE
               /\ isHandAttached(W, otherHandOf(hand))
            THEN Then([W EXCEPT !.mech.initiatingHand = hand,
                                !.mech.initiationStartTime = W.now],
                 LAMBDA W1 : Then(setState(W1, INITIATED),
                 LAMBDA W2 : emitEvent(W2, Event("initiated", NULL, W2.mech.state, hand))))
            ELSE W
      [] W.mech.state = INITIATED ->
            IF W.yaw >= W.config.minRotationVelocity
            THEN Then([W EXCEPT !.mech.spinStartTime = W.now,
                                !.mech.spinProgress = 0,
                                !.mech.currentRotation = 0,
                                !.mech.spinDirection =
                                    IF W.mech.initiatingHand = "right"
                                    THEN "clockwise" ELSE "counterclockwise"],
                 LAMBDA W1 : Then(setState(W1, SPINNING),
                 LAMBDA W2 : emitEvent(W2, Event("spinning", NULL, W2.mech.state, NULL))))
            ELSE W
      [] OTHER -> W

\* the attempt is recorded against the hand that still holds on
onGripReleasedRecordsOtherHand(W, hand) ==
    CASE W.mech.state = READY ->
            IF areBothHandsAttached(W) = FALSE
               /\ isHandAttached(W, otherHandOf(hand))
            THEN Then([W EXCEPT !.mech.initiatingHand = otherHandOf(hand),
                                !.mech.initiationStartTime = W.now],
                 LAMBDA W1 : Then(setState(W1, INITIATED),
                 LAMBDA W2 : emitEvent(W2, Event("initiated", NULL, W2.mech.state, hand))))
            ELSE W
      [] W.mech.state = INITIATED ->
            Then([W EXCEPT !.mech.spinStartTime = W.now,
                           !.mech.spinProgress = 0,
                           !.mech.currentRotation = 0,
                           !.mech.spinDirection =
                               IF W.mech.initiatingHand = "right"
                               THEN "clockwise" ELSE "counterclockwise"],
            LAMBDA W1 : Then(setState(W1, SPINNING),
            LAMBDA W2 : emitEvent(W2, Event("spinning", NULL, W2.mech.state, NULL))))
      [] OTHER -> W

onGripReleased(W, hand) ==
    CASE W.mech.state = READY ->
            IF areBothHandsAttached(W) = FALSE
               /\ isHandAttached(W, otherHandOf(hand))
            THEN Then([W EXCEPT !.mech.initiatingHand = hand,
                                !.mech.initiationStartTime = W.now],
                 LAMBDA W1 : Then(setState(W1, INITIATED),
                 LAMBDA W2 : emitEvent(W2, Event("initiated", NULL, W2.mech.state, hand))))
            ELSE W
      [] W.mech.state = INITIATED ->
            Then([W EXCEPT !.mech.spinStartTime = W.now,
                           !.mech.spinProgress = 0,
                           !.mech.currentRotation = 0,
                           !.mech.spinDirection =
                               IF W.mech.initiatingHand = "right"
                               THEN "clockwise" ELSE "counterclockwise"],
            LAMBDA W1 : Then(setState(W1, SPINNING),
            LAMBDA W2 : emitEvent(W2, Event("spinning", NULL, W2.mech.state, NULL))))
      [] OTHER -> W

\* re-gripping cancels during the spin as well
onGripPressedCancelsSpin(W, hand) ==
    CASE W.mech.state \in {INITIATED, SPINNING} -> resetToReady(W)
      [] W.mech.state = CATCH_WINDOW ->
            IF W.mech.firstCatchHand = NULL
            THEN Then([W EXCEPT !.mech.firstCatchHand = hand],
                 LAMBDA W1 : emitEvent(W1, Event("firstCatch", NULL, W1.mech.state, hand)))
            ELSE IF W.mech.firstCatchHand # hand
            THEN Then(setState(W, CAUGHT),
                 LAMBDA W1 : Then(emitEvent(W1, Event("secondCatch", NULL, W1.mech.state, hand)),
                 LAMBDA W2 : Then(emitEvent(W2, Event("success", NULL, W2.mech.state, NULL)),
                 LAMBDA W3 : setTimeout(W3, successResetDelay))))
            ELSE W
      [] OTHER -> W

\* the second press completes the catch whichever hand makes it
onGripPressedAnyHandCatches(W, hand) ==
    CASE W.mech.state = INITIATED -> resetToReady(W)
      [] W.mech.state = CATCH_WINDOW ->
            IF W.mech.firstCatchHand = NULL
            THEN Then([W EXCEPT !.mech.firstCatchHand = hand],
                 LAMBDA W1 : emitEvent(W1, Event("firstCatch", NULL, W1.mech.state, hand)))
            ELSE Then(setState(W, CAUGHT),
                 LAMBDA W1 : Then(emitEvent(W1, Event("secondCatch", NULL, W1.mech.state, hand)),
                 LAMBDA W2 : Then(emitEvent(W2, Event("success", NULL, W2.mech.state, NULL)),
                 LAMBDA W3 : setTimeout(W3, successResetDelay))))
      [] OTHER -> W

\* re-gripping before the spin starts is treated as a failed attempt
onGripPressedCancelFails(W, hand) ==
    CASE W.mech.state = INITIATED ->
            Then(setState(W, FAILED),
            LAMBDA W1 : Then(emitEvent(W1, Event("failed", NULL, W1.mech.state, NULL)),
            LAMBDA W2 : setTimeout(W2, failureResetDelay)))
      [] W.mech.state = CATCH_WINDOW ->
            IF W.mech.firstCatchHand = NULL
            THEN Then([W EXCEPT !.mech.firstCatchHand = hand],
                 LAMBDA W1 : emitEvent(W1, Event("firstCatch", NULL, W1.mech.state, hand)))
            ELSE IF W.mech.firstCatchHand # hand
            THEN Then(setState(W, CAUGHT),
                 LAMBDA W1 : Then(emitEvent(W1, Event("secondCatch", NULL, W1.mech.state, hand)),
                 LAMBDA W2 : Then(emitEvent(W2, Event("success", NULL, W2.mech.state, NULL)),
                 LAMBDA W3 : setTimeout(W3, successResetDelay))))
            ELSE W
      [] OTHER -> W

\* re-gripping cancels the attempt but leaves the initiating hand recorded
onGripPressedCancelKeepsHand(W, hand) ==
    CASE W.mech.state = INITIATED ->
            [W EXCEPT !.mech.state = READY, !.mech.previousState = READY,
                      !.mech.initiationStartTime = 0,
                      !.writes = Append(@, [from |-> INITIATED, to |-> READY,
                                            validated |-> FALSE])]
      [] W.mech.state = CATCH_WINDOW ->
            IF W.mech.firstCatchHand = NULL
            THEN Then([W EXCEPT !.mech.firstCatchHand = hand],
                 LAMBDA W1 : emitEvent(W1, Event("firstCatch", NULL, W1.mech.state, hand)))
            ELSE IF W.mech.firstCatchHand # hand
            THEN Then(setState(W, CAUGHT),
                 LAMBDA W1 : Then(emitEvent(W1, Event("secondCatch", NULL, W1.mech.state, hand)),
                 LAMBDA W2 : Then(emitEvent(W2, Event("success", NULL, W2.mech.state, NULL)),
                 LAMBDA W3 : setTimeout(W3, successResetDelay))))
            ELSE W
      [] OTHER -> W

\* gripping again while the bars spin, before the catch window, fails the attempt
onGripPressedFailsSpin(W, hand) ==
    CASE W.mech.state = INITIATED -> resetToReady(W)
      [] W.mech.state = SPINNING ->
            Then(setState(W, FAILED),
            LAMBDA W1 : Then(emitEvent(W1, Event("failed", NULL, W1.mech.state, NULL)),
            LAMBDA W2 : setTimeout(W2, failureResetDelay)))
      [] W.mech.state = CATCH_WINDOW ->
            IF W.mech.firstCatchHand = NULL
            THEN Then([W EXCEPT !.mech.firstCatchHand = hand],
                 LAMBDA W1 : emitEvent(W1, Event("firstCatch", NULL, W1.mech.state, hand)))
            ELSE IF W.mech.firstCatchHand # hand
            THEN Then(setState(W, CAUGHT),
                 LAMBDA W1 : Then(emitEvent(W1, Event("secondCatch", NULL, W1.mech.state, hand)),
                 LAMBDA W2 : Then(emitEvent(W2, Event("success", NULL, W2.mech.state, NULL)),
                 LAMBDA W3 : setTimeout(W3, successResetDelay))))
            ELSE W
      [] OTHER -> W

\* re-gripping before the spin starts does not cancel the attempt
onGripPressedNoCancel(W, hand) ==
    CASE W.mech.state = CATCH_WINDOW ->
            IF W.mech.firstCatchHand = NULL
            THEN Then([W EXCEPT !.mech.firstCatchHand = hand],
                 LAMBDA W1 : emitEvent(W1, Event("firstCatch", NULL, W1.mech.state, hand)))
            ELSE IF W.mech.firstCatchHand # hand
            THEN Then(setState(W, CAUGHT),
                 LAMBDA W1 : Then(emitEvent(W1, Event("secondCatch", NULL, W1.mech.state, hand)),
                 LAMBDA W2 : Then(emitEvent(W2, Event("success", NULL, W2.mech.state, NULL)),
                 LAMBDA W3 : setTimeout(W3, successResetDelay))))
            ELSE W
      [] OTHER -> W

\* the first press in the catch window completes the catch
onGripPressedCatchesAtOnce(W, hand) ==
    CASE W.mech.state = INITIATED -> resetToReady(W)
      [] W.mech.state = CATCH_WINDOW ->
            Then([W EXCEPT !.mech.firstCatchHand = hand],
            LAMBDA W0 : Then(setState(W0, CAUGHT),
            LAMBDA W1 : Then(emitEvent(W1, Event("secondCatch", NULL, W1.mech.state, hand)),
            LAMBDA W2 : Then(emitEvent(W2, Event("success", NULL, W2.mech.state, NULL)),
            LAMBDA W3 : setTimeout(W3, successResetDelay)))))
      [] OTHER -> W

onGripPressed(W, hand) ==
    CASE W.mech.state = INITIATED -> resetToReady(W)
      [] W.mech.state = CATCH_WINDOW ->
            IF W.mech.firstCatchHand = NULL
            THEN Then([W EXCEPT !.mech.firstCatchHand = hand],
                 LAMBDA W1 : emitEvent(W1, Event("firstCatch", NULL, W1.mech.state, hand)))
            ELSE IF W.mech.firstCatchHand # hand
            THEN Then(setState(W, CAUGHT),
                 LAMBDA W1 : Then(emitEvent(W1, Event("secondCatch", NULL, W1.mech.state, hand)),
                 LAMBDA W2 : Then(emitEvent(W2, Event("success", NULL, W2.mech.state, NULL)),
                 LAMBDA W3 : setTimeout(W3, successResetDelay))))
            ELSE W
      [] OTHER -> W

updateReadyState(W) == W

\* the timeout is taken as reached at the limit itself
updateInitiatedStateAtLimit(W) ==
    LET elapsed == W.now - W.mech.initiationStartTime
    IN  IF elapsed >= initiationTimeout
        THEN Then(setState(W, FAILED),
             LAMBDA W1 : Then(emitEvent(W1, Event("failed", NULL, W1.mech.state, NULL)),
             LAMBDA W2 : setTimeout(W2, failureResetDelay)))
        ELSE W

updateInitiatedState(W) ==
    LET elapsed == W.now - W.mech.initiationStartTime
    IN  IF elapsed > initiationTimeout
        THEN Then(setState(W, FAILED),
             LAMBDA W1 : Then(emitEvent(W1, Event("failed", NULL, W1.mech.state, NULL)),
             LAMBDA W2 : setTimeout(W2, failureResetDelay)))
        ELSE W

\* Math.min(elapsed / spinDuration, 1.0), as the numerator over spinDuration
progressOf(elapsed) == IF elapsed < spinDuration THEN elapsed ELSE spinDuration

rotationOf(progress) == (progress * targetRotation) \div spinDuration

\* spinProgress >= 0.8
reachedCatchWindow(progress) == 10 * progress >= 8 * spinDuration

\* the catch window opens silently
updateSpinningStateSilent(W) ==
    LET elapsed == W.now - W.mech.spinStartTime
    IN  Then([W EXCEPT !.mech.spinProgress = progressOf(elapsed),
                       !.mech.currentRotation = rotationOf(progressOf(elapsed))],
        LAMBDA W1 :
            IF reachedCatchWindow(W1.mech.spinProgress)
            THEN Then([W1 EXCEPT !.mech.catchWindowStartTime = W1.now],
                 LAMBDA W2 : setState(W2, CATCH_WINDOW))
            ELSE W1)

\* the catch window opens only when the spin is complete
updateSpinningStateOpensAtEnd(W) ==
    LET elapsed == W.now - W.mech.spinStartTime
    IN  Then([W EXCEPT !.mech.spinProgress = progressOf(elapsed),
                       !.mech.currentRotation = rotationOf(progressOf(elapsed))],
        LAMBDA W1 :
            IF W1.mech.spinProgress >= spinDuration
            THEN Then([W1 EXCEPT !.mech.catchWindowStartTime = W1.now],
                 LAMBDA W2 : Then(setState(W2, CATCH_WINDOW),
                 LAMBDA W3 : emitEvent(W3, Event("catchWindowOpen", NULL,
                                                 W3.mech.state, NULL))))
            ELSE W1)

updateSpinningState(W) ==
    LET elapsed == W.now - W.mech.spinStartTime
    IN  Then([W EXCEPT !.mech.spinProgress = progressOf(elapsed),
                       !.mech.currentRotation = rotationOf(progressOf(elapsed))],
        LAMBDA W1 :
            IF reachedCatchWindow(W1.mech.spinProgress)
            THEN Then([W1 EXCEPT !.mech.catchWindowStartTime = W1.now],
                 LAMBDA W2 : Then(setState(W2, CATCH_WINDOW),
                 LAMBDA W3 : emitEvent(W3, Event("catchWindowOpen", NULL,
                                                 W3.mech.state, NULL))))
            ELSE W1)

\* catchWindowClose is emitted after the state has changed to FAILED
updateCatchWindowStateCloseLate(W) ==
    LET elapsed == W.now - W.mech.catchWindowStartTime
        totalElapsed == W.now - W.mech.spinStartTime
    IN  Then([W EXCEPT !.mech.spinProgress = progressOf(totalElapsed),
                       !.mech.currentRotation = rotationOf(progressOf(totalElapsed))],
        LAMBDA W1 :
            IF elapsed > catchWindowDuration
            THEN Then(setState(W1, FAILED),
                 LAMBDA W2 : Then(emitEvent(W2, Event("catchWindowClose", NULL,
                                                      W2.mech.state, NULL)),
                 LAMBDA W3 : Then(emitEvent(W3, Event("failed", NULL, W3.mech.state, NULL)),
                 LAMBDA W4 : setTimeout(W4, failureResetDelay))))
            ELSE W1)

\* the attempt fails when the window runs out, but no reset is scheduled
updateCatchWindowStateNoReset(W) ==
    LET elapsed == W.now - W.mech.catchWindowStartTime
        totalElapsed == W.now - W.mech.spinStartTime
    IN  Then([W EXCEPT !.mech.spinProgress = progressOf(totalElapsed),
                       !.mech.currentRotation = rotationOf(progressOf(totalElapsed))],
        LAMBDA W1 :
            IF elapsed > catchWindowDuration
            THEN Then(emitEvent(W1, Event("catchWindowClose", NULL, W1.mech.state, NULL)),
                 LAMBDA W2 : Then(setState(W2, FAILED),
                 LAMBDA W3 : emitEvent(W3, Event("failed", NULL, W3.mech.state, NULL))))
            ELSE W1)

updateCatchWindowState(W) ==
    LET elapsed == W.now - W.mech.catchWindowStartTime
        totalElapsed == W.now - W.mech.spinStartTime
    IN  Then([W EXCEPT !.mech.spinProgress = progressOf(totalElapsed),
                       !.mech.currentRotation = rotationOf(progressOf(totalElapsed))],
        LAMBDA W1 :
            IF elapsed > catchWindowDuration
            THEN Then(emitEvent(W1, Event("catchWindowClose", NULL, W1.mech.state, NULL)),
                 LAMBDA W2 : Then(setState(W2, FAILED),
                 LAMBDA W3 : Then(emitEvent(W3, Event("failed", NULL, W3.mech.state, NULL)),
                 LAMBDA W4 : setTimeout(W4, failureResetDelay))))
            ELSE W1)

\* BarspinMechanic.update(deltaTime)
update(W) ==
    CASE W.mech.state = READY -> updateReadyState(W)
      [] W.mech.state = INITIATED -> updateInitiatedState(W)
      [] W.mech.state = SPINNING -> updateSpinningState(W)
      [] W.mech.state = CATCH_WINDOW -> updateCatchWindowState(W)
      [] OTHER -> W

canInitiate(W) == W.mech.state = READY /\ areBothHandsAttached(W)

(***************************************************************************)
(* GripSystem                                                              *)
(***************************************************************************)
GripEvent(type, hand, distance) == [type |-> type, hand |-> hand, distance |-> distance]

\* XrMechanicalControllerInput.vibrate(intensity, timeMs); delay is the
\* setTimeout delay of the second pulse of attachController
vibrate(W, hand, intensity, timeMs, delay) ==
    [W EXCEPT !.vibrations = Append(@, [hand |-> hand, intensity |-> intensity,
                                        timeMs |-> timeMs, delay |-> delay])]

\* GripSystem.emitEvent: the listeners registered on the GripSystem are the
\* two of BarspinMechanic.setupGripEventListeners, called synchronously.
gripEmitEvent(W, event) ==
    Then([W EXCEPT !.gripEmitted = Append(@, event)],
    LAMBDA W1 :
        CASE event.type = "gripEnd" -> onGripReleased(W1, event.hand)
          [] event.type = "gripStart" -> onGripPressed(W1, event.hand)
          [] OTHER -> W1)

attachController(W, handSide) ==
    Then([W EXCEPT !.grip[handSide].isAttached = TRUE,
                   !.grip[handSide].attachedSide = handSide,
                   !.grip[handSide].attachmentOffset =
                       IF gripZone[handSide].present
                       THEN W.grip[handSide].distance ELSE @],
    LAMBDA W1 : Then(vibrate(W1, handSide, 80, 80, 0),
    LAMBDA W2 : vibrate(W2, handSide, 40, 40, 100)))

\* the detach leaves the side the hand was recorded on
detachControllerKeepsSide(W, handSide) ==
    Then([W EXCEPT !.grip[handSide].isAttached = FALSE,
                   !.grip[handSide].attachmentOffset = 0],
    LAMBDA W1 : vibrate(W1, handSide, 40, 50, 0))

detachController(W, handSide) ==
    Then([W EXCEPT !.grip[handSide].isAttached = FALSE,
                   !.grip[handSide].attachedSide = NULL,
                   !.grip[handSide].attachmentOffset = 0],
    LAMBDA W1 : vibrate(W1, handSide, 40, 50, 0))

\* the four checks of handleStateTransition, in the order of the source
\* entering the zone is announced only when the hand arrives at NEAR
enteredProximityNearOnly(W, previousState, handSide) ==
    IF previousState = IDLE /\ W.grip[handSide].state = NEAR
    THEN Then(vibrate(W, handSide, 30, 50, 0),
         LAMBDA A : gripEmitEvent(A, GripEvent("enterProximity", handSide,
                                               A.grip[handSide].distance)))
    ELSE W

enteredProximity(W, previousState, handSide) ==
    IF previousState = IDLE /\ W.grip[handSide].state # IDLE
    THEN Then(vibrate(W, handSide, 30, 50, 0),
         LAMBDA A : gripEmitEvent(A, GripEvent("enterProximity", handSide,
                                               A.grip[handSide].distance)))
    ELSE W

exitedProximity(W, previousState, handSide) ==
    IF previousState # IDLE /\ W.grip[handSide].state = IDLE
    THEN Then(vibrate(W, handSide, 10, 30, 0),
         LAMBDA A : Then(IF A.grip[handSide].isAttached
                         THEN detachController(A, handSide) ELSE A,
         LAMBDA B : gripEmitEvent(B, GripEvent("exitProximity", handSide,
                                               B.grip[handSide].distance))))
    ELSE W

\* the gripStart branch forgets to attach
startedGrippingNoAttach(W, previousState, handSide) ==
    IF previousState # GRIPPING /\ W.grip[handSide].state = GRIPPING
    THEN gripEmitEvent(W, GripEvent("gripStart", handSide, W.grip[handSide].distance))
    ELSE W

\* gripStart is emitted in every frame in which the hand grips
startedGrippingEveryFrame(W, previousState, handSide) ==
    IF W.grip[handSide].state = GRIPPING
    THEN Then(attachController(W, handSide),
         LAMBDA A : gripEmitEvent(A, GripEvent("gripStart", handSide,
                                               A.grip[handSide].distance)))
    ELSE W

startedGripping(W, previousState, handSide) ==
    IF previousState # GRIPPING /\ W.grip[handSide].state = GRIPPING
    THEN Then(attachController(W, handSide),
         LAMBDA A : gripEmitEvent(A, GripEvent("gripStart", handSide,
                                               A.grip[handSide].distance)))
    ELSE W

\* the gripEnd branch forgets to detach
stoppedGrippingNoDetach(W, previousState, handSide) ==
    IF previousState = GRIPPING /\ W.grip[handSide].state # GRIPPING
    THEN gripEmitEvent(W, GripEvent("gripEnd", handSide, W.grip[handSide].distance))
    ELSE W

\* a hand that leaves the zone without having gripped emits gripEnd as well
stoppedGrippingAnyExit(W, previousState, handSide) ==
    IF previousState # IDLE /\ previousState # W.grip[handSide].state
       /\ W.grip[handSide].state # GRIPPING
    THEN Then(detachController(W, handSide),
         LAMBDA A : gripEmitEvent(A, GripEvent("gripEnd", handSide,
                                               A.grip[handSide].distance)))
    ELSE W

stoppedGripping(W, previousState, handSide) ==
    IF previousState = GRIPPING /\ W.grip[handSide].state # GRIPPING
    THEN Then(detachController(W, handSide),
         LAMBDA A : gripEmitEvent(A, GripEvent("gripEnd", handSide,
                                               A.grip[handSide].distance)))
    ELSE W

handleStateTransition(W, previousState, handSide) ==
    Then(enteredProximity(W, previousState, handSide),
    LAMBDA W1 : Then(exitedProximity(W1, previousState, handSide),
    LAMBDA W2 : Then(startedGripping(W2, previousState, handSide),
    LAMBDA W3 : stoppedGripping(W3, previousState, handSide))))

\* a hand that grips keeps gripping while it squeezes within the proximity zone
updateHandGripSticky(W, handSide, distance, squeeze) ==
    LET handGrip == W.grip[handSide]
        zone == gripZone[handSide]
        isNear == distance < zone.proximityThreshold
        newState == IF isNear
                    THEN IF squeeze /\ (distance < zone.grabThreshold
                                         \/ handGrip.state = GRIPPING)
                         THEN GRIPPING ELSE NEAR
                    ELSE IDLE
    IN  Then([W EXCEPT !.grip[handSide] =
                  [handGrip EXCEPT !.gripButtonPressed = squeeze,
                                   !.distance = distance,
                                   !.isNear = isNear,
                                   !.state = newState]],
        LAMBDA W1 : handleStateTransition(W1, W.grip[handSide].state, handSide))

\* distance and squeeze are the controller's pose and grip button this frame
updateHandGrip(W, handSide, distance, squeeze) ==
    LET handGrip == W.grip[handSide]
        zone == gripZone[handSide]
        isNear == distance < zone.proximityThreshold
        newState == IF isNear
                    THEN IF squeeze /\ distance < zone.grabThreshold
                         THEN GRIPPING ELSE NEAR
                    ELSE IDLE
    IN  Then([W EXCEPT !.grip[handSide] =
                  [handGrip EXCEPT !.gripButtonPressed = squeeze,
                                   !.distance = distance,
                                   !.isNear = isNear,
                                   !.state = newState]],
        LAMBDA W1 : handleStateTransition(W1, W.grip[handSide].state, handSide))

\* a hand is updated whenever its zone exists, connected or not
gripUpdateIgnoresController(W, l, r) ==
    Then(IF gripZone["left"].present
         THEN updateHandGrip(W, "left", l.distance, l.squeeze) ELSE W,
    LAMBDA W1 :
         IF gripZone["right"].present
         THEN updateHandGrip(W1, "right", r.distance, r.squeeze) ELSE W1)

\* the right hand is updated before the left hand
gripUpdateRightFirst(W, l, r) ==
    Then(IF gripZone["right"].present /\ controller["right"]
         THEN updateHandGrip(W, "right", r.distance, r.squeeze) ELSE W,
    LAMBDA W1 :
         IF gripZone["left"].present /\ controller["left"]
         THEN updateHandGrip(W1, "left", l.distance, l.squeeze) ELSE W1)

\* GripSystem.update(): left hand first, then right hand
gripUpdate(W, l, r) ==
    Then(IF gripZone["left"].present /\ controller["left"]
         THEN updateHandGrip(W, "left", l.distance, l.squeeze) ELSE W,
    LAMBDA W1 :
         IF gripZone["right"].present /\ controller["right"]
         THEN updateHandGrip(W1, "right", r.distance, r.squeeze) ELSE W1)

\* the mechanic is updated before the grip system
onAnimateMechanicFirst(W, l, r) == Then(update(W), LAMBDA W1 : gripUpdate(W1, l, r))

\* Context.onAnimate: GripSystem.update() then BarspinMechanic.update()
onAnimate(W, l, r) == Then(gripUpdate(W, l, r), LAMBDA W1 : update(W1))

(***************************************************************************)
(* Steering.  Angles are whole degrees; the controller positions used are   *)
(* on a grid on which Math.atan2 is a multiple of 45 degrees.               *)
(***************************************************************************)
\* Math.atan2(dz, dx) in degrees, for dz = 0, dx = 0 or |dz| = |dx|
atan2(dz, dx) ==
    CASE dz = 0 /\ dx >= 0 -> 0
      [] dz = 0 /\ dx < 0 -> 180
      [] dx = 0 /\ dz > 0 -> 90
      [] dx = 0 /\ dz < 0 -> -90
      [] dz > 0 /\ dx = dz -> 45
      [] dz > 0 /\ dx = -dz -> 135
      [] dz < 0 /\ dx = -dz -> -45
      [] dz < 0 /\ dx = dz -> -135

\* Math.sqrt, rounded down
sqrt(n) == CHOOSE r \in 0..n : r * r <= n /\ (r + 1) * (r + 1) > n

\* Vector3.distanceTo
distanceTo(a, b) ==
    sqrt((a.x - b.x) * (a.x - b.x) + (a.y - b.y) * (a.y - b.y)
         + (a.z - b.z) * (a.z - b.z))

\* the rotation is computed from whatever the controller objects hold
calculateHandlebarRotationUnguarded(W, position) ==
    IF ~areBothHandsAttached(W) THEN 0
    ELSE -atan2(position["right"].z - position["left"].z,
                position["right"].x - position["left"].x)

\* position: _worldPosition of the two controllers
calculateHandlebarRotation(W, position) ==
    IF ~areBothHandsAttached(W) THEN 0
    ELSE IF ~controller["left"] \/ ~controller["right"] THEN 0
    ELSE -atan2(position["right"].z - position["left"].z,
                position["right"].x - position["left"].x)

getControllerMidpoint(W, position) ==
    IF ~areBothHandsAttached(W) THEN NULL
    ELSE IF ~controller["left"] \/ ~controller["right"] THEN NULL
    ELSE Vec((position["left"].x + position["right"].x) \div 2,
             (position["left"].y + position["right"].y) \div 2,
             (position["left"].z + position["right"].z) \div 2)

getControllerSpread(W, position) ==
    IF ~areBothHandsAttached(W) THEN 0
    ELSE IF ~controller["left"] \/ ~controller["right"] THEN 0
    ELSE distanceTo(position["left"], position["right"])

Max(a, b) == IF a >= b THEN a ELSE b
Min(a, b) == IF a <= b THEN a ELSE b

\* the steering part of Context.onAnimate: the new targetHandlebarRotation.
\* this.handlebars is assigned by the callback that goes on to create the
\* grip zones, so it is set exactly when the zones exist.
steerTarget(W, position, target) ==
    IF gripZone["left"].present
    THEN IF areBothHandsAttached(W)
         THEN Max(-maxHandlebarRotation,
                  Min(maxHandlebarRotation, calculateHandlebarRotation(W, position)))
         ELSE 0
    ELSE target

(***************************************************************************)
(* History of an attempt: the mechanic events other than stateChange since  *)
(* the last `initiated`.                                                    *)
(***************************************************************************)
logStep(log, e) ==
    IF e.type = "stateChange" THEN log
    ELSE IF e.type = "initiated" THEN <<"initiated">>
    ELSE Append(log, e.type)

logAfter(log, events) ==
    LET f[i \in 0..Len(events)] ==
            IF i = 0 THEN log ELSE logStep(f[i - 1], events[i])
    IN  f[Len(events)]

(***************************************************************************)
(* History of a hand: the last event of each of the two pairs.              *)
(***************************************************************************)
NoneYet == [h \in Hands |-> [grip |-> "none", proximity |-> "none"]]

lastStep(last, e) ==
    IF e.type \in {"gripStart", "gripEnd"}
    THEN [last EXCEPT ![e.hand].grip = e.type]
    ELSE [last EXCEPT ![e.hand].proximity = e.type]

lastAfter(last, events) ==
    LET f[i \in 0..Len(events)] ==
            IF i = 0 THEN last ELSE lastStep(f[i - 1], events[i])
    IN  f[Len(events)]

\* the effects of one handler on the program's variables
Commit(W) ==
    /\ grip' = W.grip
    /\ mech' = W.mech
    /\ timers' = W.timers
    /\ emitted' = W.emitted
    /\ writes' = W.writes
    /\ attemptLog' = logAfter(attemptLog, W.emitted)

(***************************************************************************)
(* The program                                                             *)
(***************************************************************************)
Init ==
    /\ now = TickMs
    /\ gripZone = [h \in Hands |-> NoZone]
    /\ controller = [h \in Hands |-> FALSE]
    /\ grip = [h \in Hands |-> createHandGripData]
    /\ mech = InitMech
    /\ timers = <<>>
    /\ emitted = <<>>
    /\ gripEmitted = <<>>
    /\ vibrations = <<>>
    /\ lastGripEvent = NoneYet
    /\ bus = NoBus
    /\ runs = NoRuns
    /\ steer = NoSteer
    /\ writes = <<>>
    /\ attemptLog = <<>>
    /\ manualResets = 0
    /\ call = NoCall

\* the two zones initializeGripZones creates from the configuration fields
\* proximity (this.proximityThreshold) and grab (this.grabThreshold)
initializeGripZones(proximity, grab) ==
    [h \in Hands |-> [present |-> TRUE,
                      proximityThreshold |-> proximity,
                      grabThreshold |-> grab]]

\* GripSystem.initializeGripZones(), called once the grip markers exist
InitializeGripZones ==
    /\ ~gripZone["left"].present
    /\ gripZone' = initializeGripZones(proximityThreshold, grabThreshold)
    /\ UNCHANGED <<now, controller, grip, mech, timers, emitted, gripEmitted,
                   vibrations, writes, attemptLog, manualResets, call,
                   lastGripEvent, bus, runs, steer>>

\* XrInput.onControllerConnect
ControllerConnect(h) ==
    /\ ~controller[h]
    /\ controller' = [controller EXCEPT ![h] = TRUE]
    /\ UNCHANGED <<now, gripZone, grip, mech, timers, emitted, gripEmitted,
                   vibrations, writes, attemptLog, manualResets, call,
                   lastGripEvent, bus, runs, steer>>

\* XrInput.onControllerDisconnect
ControllerDisconnect(h) ==
    /\ controller[h]
    /\ controller' = [controller EXCEPT ![h] = FALSE]
    /\ UNCHANGED <<now, gripZone, grip, mech, timers, emitted, gripEmitted,
                   vibrations, writes, attemptLog, manualResets, call,
                   lastGripEvent, bus, runs, steer>>

\* one rendered frame: dt is the time since the previous frame
\* full: the step keeps every grip event and haptic pulse of the frame;
\* otherwise it keeps only the gripStart events
FrameAt(dts, full, inputs) ==
    \E dt \in dts, l \in inputs, r \in inputs :
        /\ now + dt <= MaxTime
        /\ \A i \in 1..Len(timers) : now + dt <= timers[i].due + MaxTimerLate
        /\ now' = now + dt
        /\ \E W \in {onAnimate([World EXCEPT !.now = now + dt], l, r)} :
               /\ Commit(W)
               /\ gripEmitted' = IF full THEN W.gripEmitted
                                 ELSE SelectSeq(W.gripEmitted,
                                                LAMBDA e : e.type = "gripStart")
               /\ vibrations' = IF full THEN W.vibrations ELSE <<>>
               /\ lastGripEvent' = IF full THEN lastAfter(lastGripEvent, W.gripEmitted)
                                   ELSE lastGripEvent
        /\ UNCHANGED <<gripZone, controller, manualResets, call, bus, runs, steer>>

Frame == FrameAt({0, TickMs}, FALSE, Inputs)

\* a deferred auto-reset callback fires, no sooner than its delay
TimerFire ==
    \E i \in 1..Len(timers) :
        /\ timers[i].due <= now
        /\ \E W \in {resetToReady([World EXCEPT !.timers =
                        SubSeq(timers, 1, i - 1) \o SubSeq(timers, i + 1, Len(timers))])} :
               Commit(W)
        /\ gripEmitted' = <<>>
        /\ vibrations' = <<>>
        /\ UNCHANGED <<now, gripZone, controller, manualResets, call, lastGripEvent, bus, runs, steer>>

Next ==
    \/ InitializeGripZones
    \/ \E h \in Hands : ControllerConnect(h)
    \/ Frame
    \/ TimerFire

Spec == Init /\ [][Next]_vars

(***************************************************************************)
(* The GripSystem with controllers that come and go.  The frames follow one *)
(* another within one clock reading, so the mechanic's timers stay idle.    *)
(***************************************************************************)
GripFrame == FrameAt({0}, TRUE, Inputs)

NextGrip ==
    \/ InitializeGripZones
    \/ \E h \in Hands : ControllerConnect(h)
    \/ \E h \in Hands : ControllerDisconnect(h)
    \/ GripFrame

SpecGrip == Init /\ [][NextGrip]_vars

(***************************************************************************)
(* The program with an external caller of the public resetToReady().       *)
(* It starts once the grip zones exist and both controllers are connected. *)
(***************************************************************************)
\* an external call of the public resetToReady()
ResetToReady ==
    /\ manualResets < MaxManualResets
    /\ manualResets' = manualResets + 1
    /\ \E W \in {resetToReady(World)} : Commit(W)
    /\ gripEmitted' = <<>>
    /\ vibrations' = <<>>
    /\ UNCHANGED <<now, gripZone, controller, call, lastGripEvent, bus, runs, steer>>

InitReset ==
    /\ now = TickMs
    /\ gripZone = [h \in Hands |->
                      [present |-> TRUE,
                       proximityThreshold |-> proximityThreshold,
                       grabThreshold |-> grabThreshold]]
    /\ controller = [h \in Hands |-> TRUE]
    /\ grip = [h \in Hands |-> createHandGripData]
    /\ mech = InitMech
    /\ timers = <<>>
    /\ emitted = <<>>
    /\ gripEmitted = <<>>
    /\ vibrations = <<>>
    /\ lastGripEvent = NoneYet
    /\ bus = NoBus
    /\ runs = NoRuns
    /\ steer = NoSteer
    /\ writes = <<>>
    /\ attemptLog = <<>>
    /\ manualResets = 0
    /\ call = NoCall

\* the frames of this specification leave out the pose between the two
\* thresholds, which the mechanic cannot tell from any other NEAR pose
ResetFrame == FrameAt({0, TickMs}, FALSE, {i \in Inputs : i.distance # 90})

NextReset ==
    \/ ResetFrame
    \/ TimerFire
    \/ ResetToReady

SpecReset == InitReset /\ [][NextReset]_vars

(***************************************************************************)
(* Unit harness: setState and resetToReady applied to a mechanic whose      *)
(* fields hold any of a small set of values.                                *)
(***************************************************************************)
MechValues ==
    {[state |-> s, previousState |-> READY,
      spinDirection |-> d, spinStartTime |-> t1,
      spinProgress |-> pr[1], currentRotation |-> pr[2],
      initiatingHand |-> ih, initiationStartTime |-> t2,
      catchWindowStartTime |-> t3, firstCatchHand |-> fh] :
        s \in BarspinState, d \in {NULL, "clockwise"},
        t1 \in {0, TickMs}, pr \in {<<0, 0>>, <<500, 300>>},
        ih \in {NULL, "right"}, t2 \in {0, TickMs},
        t3 \in {0, 3 * TickMs}, fh \in {NULL, "left"}}

InitUnit ==
    /\ now = TickMs
    /\ gripZone = [h \in Hands |-> NoZone]
    /\ controller = [h \in Hands |-> FALSE]
    /\ grip = [h \in Hands |-> createHandGripData]
    /\ mech \in MechValues
    /\ timers = <<>>
    /\ emitted = <<>>
    /\ gripEmitted = <<>>
    /\ vibrations = <<>>
    /\ lastGripEvent = NoneYet
    /\ bus = NoBus
    /\ runs = NoRuns
    /\ steer = NoSteer
    /\ writes = <<>>
    /\ attemptLog = <<>>
    /\ manualResets = 0
    /\ call = NoCall

CallSetState(to) ==
    /\ Len(call) < MaxCalls
    /\ call' = Append(call, [op |-> "setState", from |-> mech.state, to |-> to])
    /\ \E W \in {setState(World, to)} : Commit(W)
    /\ UNCHANGED <<now, gripZone, controller, gripEmitted, vibrations, manualResets,
                   lastGripEvent, bus, runs, steer>>

CallResetToReady ==
    /\ Len(call) < MaxCalls
    /\ call' = Append(call, [op |-> "resetToReady", from |-> mech.state, to |-> READY])
    /\ \E W \in {resetToReady(World)} : Commit(W)
    /\ UNCHANGED <<now, gripZone, controller, gripEmitted, vibrations, manualResets,
                   lastGripEvent, bus, runs, steer>>

NextUnit ==
    \/ \E to \in BarspinState : CallSetState(to)
    \/ CallResetToReady

SpecUnit == InitUnit /\ [][NextUnit]_vars

(***************************************************************************)
(* The GripSystem with configuration fields that were assigned before the   *)
(* zones are created: proximityThreshold and grabThreshold are public.      *)
(***************************************************************************)
ConfigValues == {60, 80, 100}

InitializeGripZonesWith ==
    \E proximity \in ConfigValues, grab \in ConfigValues :
        /\ ~gripZone["left"].present
        /\ gripZone' = initializeGripZones(proximity, grab)
        /\ UNCHANGED <<now, controller, grip, mech, timers, emitted, gripEmitted,
                       vibrations, writes, attemptLog, manualResets, call,
                       lastGripEvent, bus, runs, steer>>

NextZones ==
    \/ InitializeGripZonesWith
    \/ \E h \in Hands : ControllerConnect(h)
    \/ GripFrame

SpecZones == Init /\ [][NextZones]_vars

(***************************************************************************)
(* Event listeners.  GripSystem and BarspinMechanic keep, per event type,   *)
(* an array of listeners; addEventListener, removeEventListener and         *)
(* emitEvent are the same code in both classes.  A listener is known by its *)
(* name; what it does when called is its script: nothing, or a call of      *)
(* addEventListener / removeEventListener for the type being emitted.       *)
(***************************************************************************)
ListenerIds == {"a", "b", "c"}

\* listeners.push(listener)
addEventListener(listeners, type, listener) ==
    [listeners EXCEPT ![type] = Append(@, listener)]

\* listeners.indexOf(listener), counted from 1; 0 when absent
indexOf(list, listener) ==
    IF \E i \in 1..Len(list) : list[i] = listener
    THEN CHOOSE i \in 1..Len(list) :
            list[i] = listener /\ \A j \in 1..(i - 1) : list[j] # listener
    ELSE 0

\* if (index !== -1) listeners.splice(index, 1)
removeEventListener(listeners, type, listener) ==
    \* the array of the type with its first occurrence of the listener cut out
    IF indexOf(listeners[type], listener) = 0 THEN listeners
    ELSE [listeners EXCEPT ![type] =
             SubSeq(@, 1, indexOf(@, listener) - 1)
                 \o SubSeq(@, indexOf(@, listener) + 1, Len(@))]

Quiet == [op |-> "none", listener |-> NULL]

\* at most one listener changes the registrations, and a listener it adds
\* does nothing when called
Changes ==
    {c \in [who : ListenerIds, op : {"add", "remove"}, listener : ListenerIds] :
        c.op = "add" => c.listener # c.who}

Scripts ==
    {[l \in ListenerIds |-> Quiet]} \cup
    {[l \in ListenerIds |->
         IF l = c.who THEN [op |-> c.op, listener |-> c.listener] ELSE Quiet] :
        c \in Changes}

\* listener(event): the call is recorded, then the listener's script runs
callListener(B, type, script, listener) ==
    [B EXCEPT !.calls = Append(@, listener),
              !.listeners =
                  CASE script[listener].op = "add" ->
                          addEventListener(@, type, script[listener].listener)
                    [] script[listener].op = "remove" ->
                          removeEventListener(@, type, script[listener].listener)
                    [] OTHER -> @]

\* for (const listener of listeners) listener(event): the array iterator
\* reads listeners[i] and the array's length afresh at every step
RECURSIVE emitLoop(_, _, _, _)
emitLoop(B, type, script, i) ==
    IF i > Len(B.listeners[type]) THEN B
    ELSE Then(callListener(B, type, script, B.listeners[type][i]),
         LAMBDA B1 : emitLoop(B1, type, script, i + 1))

busEmitEvent(B, type, script) == emitLoop([B EXCEPT !.calls = <<>>], type, script, 1)

OtherVars ==
    <<now, gripZone, controller, grip, mech, timers, emitted, gripEmitted,
      vibrations, writes, attemptLog, manualResets, call, lastGripEvent, runs, steer>>

AddEventListener(type, listener) ==
    /\ Len(bus.listeners[type]) < MaxListeners
    /\ bus' = [NoBus EXCEPT !.listeners = addEventListener(bus.listeners, type, listener)]
    /\ UNCHANGED OtherVars

RemoveEventListener(type, listener) ==
    /\ bus' = [NoBus EXCEPT !.listeners = removeEventListener(bus.listeners, type, listener)]
    /\ UNCHANGED OtherVars

\* one emission, run to its end
EmitEvent(type) ==
    \E script \in Scripts :
        /\ \E B \in {busEmitEvent(bus, type, script)} :
              /\ Len(B.listeners[type]) <= MaxListeners
              /\ bus' = [B EXCEPT !.type = type, !.before = bus.listeners[type]]
        /\ UNCHANGED OtherVars

NextListeners ==
    \/ \E type \in EventTypes, listener \in ListenerIds : AddEventListener(type, listener)
    \/ \E type \in EventTypes, listener \in ListenerIds : RemoveEventListener(type, listener)
    \/ \E type \in EventTypes : EmitEvent(type)

SpecListeners == Init /\ [][NextListeners]_vars

(***************************************************************************)
(* The program under fair scheduling: the render loop keeps producing       *)
(* frames in which time has passed, and a due timer callback is run.  While *)
(* the mechanic is idle (READY, every field at its initial value, no timer  *)
(* pending) nothing reads the clock, so the frame that follows an idle      *)
(* state counts time from TickMs again; the clock stays bounded by the      *)
(* length of one attempt.                                                   *)
(***************************************************************************)
Idle == mech = InitMech /\ timers = <<>>

\* a hand is on the grip (squeezing or not) or away from it
LiveInputs == {i \in Inputs : i.distance # 90}

LiveFrameAt(dts) ==
    \E dt \in dts, l \in LiveInputs, r \in LiveInputs :
        \E t \in {(IF Idle THEN TickMs ELSE now) + dt} :
            /\ \A i \in 1..Len(timers) : t <= timers[i].due + MaxTimerLate
            /\ now' = t
            /\ \E W \in {onAnimate([World EXCEPT !.now = t], l, r)} :
                   /\ Commit(W)
                   /\ gripEmitted' = <<>>
                   /\ vibrations' = <<>>
            /\ UNCHANGED <<gripZone, controller, manualResets, call, lastGripEvent, bus, runs, steer>>

LiveFrame == LiveFrameAt({0})

LiveTick == LiveFrameAt({TickMs})

\* a deferred auto-reset callback runs when it is due: before the frame that
\* would pass its time, with the clock at that time
LiveTimerFire ==
    \E i \in 1..Len(timers) :
        /\ timers[i].due <= now + TickMs
        /\ now' = IF timers[i].due > now THEN timers[i].due ELSE now
        /\ \E W \in {resetToReady([World EXCEPT !.timers =
                        SubSeq(timers, 1, i - 1) \o SubSeq(timers, i + 1, Len(timers))])} :
               Commit(W)
        /\ gripEmitted' = <<>>
        /\ vibrations' = <<>>
        /\ UNCHANGED <<gripZone, controller, manualResets, call, lastGripEvent, bus, runs, steer>>

NextLive == LiveFrame \/ LiveTick \/ LiveTimerFire

SpecLive ==
    /\ InitReset
    /\ [][NextLive]_vars
    /\ WF_vars(LiveTick)
    /\ WF_vars(LiveTimerFire)

(***************************************************************************)
(* Two runs of the program side by side.  Both start with the grip zones    *)
(* created and the controllers connected, and every frame and timer         *)
(* callback happens in both at the same clock reading with the same poses   *)
(* and buttons.  Run 1 has the configuration of the source and controllers  *)
(* that turn slowly; run 2 has other values of minRotationVelocity and      *)
(* catchWindowAngleMargin and controllers whose yaw velocity changes from   *)
(* frame to frame.                                                          *)
(***************************************************************************)
\* yaw velocities a controller reports, 1/100 rad/s: below minRotationVelocity
\* and well above it
SlowYaw == 100
FastYaw == 600
Yaws == {SlowYaw, FastYaw}

\* the two configuration entries in run 2
otherConfig == [minRotationVelocity |-> 300, catchWindowAngleMargin |-> 0]

RunWorld(i, t, y) ==
    [now |-> t, grip |-> runs[i].grip, mech |-> runs[i].mech,
     timers |-> runs[i].timers,
     emitted |-> <<>>, gripEmitted |-> <<>>, vibrations |-> <<>>, writes |-> <<>>,
     config |-> runs[i].config, yaw |-> y]

\* the greatest yaw velocity read in the frames from the initiation of an
\* attempt to the start of its spin
flickAfter(flick, W) ==
    IF W.mech.state = READY THEN NoYaw
    ELSE IF \E k \in 1..Len(W.emitted) : W.emitted[k].type = "initiated" THEN W.yaw
    ELSE IF W.mech.state = INITIATED
              \/ \E k \in 1..Len(W.emitted) : W.emitted[k].type = "spinning"
         THEN (IF W.yaw > flick THEN W.yaw ELSE flick)
    ELSE flick

\* what a run keeps of a handler's result
RunAfter(i, W) ==
    [config |-> runs[i].config, flick |-> flickAfter(runs[i].flick, W),
     grip |-> W.grip, mech |-> W.mech, timers |-> W.timers, emitted |-> W.emitted]

InitPair ==
    /\ now = TickMs
    /\ gripZone = initializeGripZones(proximityThreshold, grabThreshold)
    /\ controller = [h \in Hands |-> TRUE]
    /\ grip = [h \in Hands |-> createHandGripData]
    /\ mech = InitMech
    /\ timers = <<>>
    /\ emitted = <<>>
    /\ gripEmitted = <<>>
    /\ vibrations = <<>>
    /\ lastGripEvent = NoneYet
    /\ bus = NoBus
    /\ writes = <<>>
    /\ attemptLog = <<>>
    /\ manualResets = 0
    /\ call = NoCall
    /\ runs = [NoRuns EXCEPT ![2].config = otherConfig]
    /\ steer = NoSteer

PairVars ==
    <<gripZone, controller, grip, mech, timers, emitted, gripEmitted, vibrations,
      writes, attemptLog, manualResets, call, lastGripEvent, bus, steer>>

\* one rendered frame, in both runs
PairFrame ==
    \E dt \in {0, TickMs}, l \in LiveInputs, r \in LiveInputs, y \in Yaws :
        /\ now + dt <= MaxTime
        /\ \A i \in RunIds : \A k \in 1..Len(runs[i].timers) :
              now + dt <= runs[i].timers[k].due + MaxTimerLate
        /\ now' = now + dt
        /\ runs' = [i \in RunIds |->
                       RunAfter(i, onAnimate(RunWorld(i, now + dt,
                                                      IF i = 1 THEN SlowYaw ELSE y),
                                             l, r))]
        /\ UNCHANGED PairVars

\* the reset callbacks that are due fire, in both runs
PairTimerFire ==
    /\ \E i \in RunIds : runs[i].timers # <<>> /\ runs[i].timers[1].due <= now
    /\ runs' = [i \in RunIds |->
                   IF runs[i].timers # <<>> /\ runs[i].timers[1].due <= now
                   THEN RunAfter(i, resetToReady(
                            [RunWorld(i, now, NoYaw) EXCEPT !.timers = Tail(@)]))
                   ELSE [runs[i] EXCEPT !.emitted = <<>>]]
    /\ UNCHANGED <<now>>
    /\ UNCHANGED PairVars

NextPair == PairFrame \/ PairTimerFire

SpecPair == InitPair /\ [][NextPair]_vars

(***************************************************************************)
(* The frame loop with its steering.  Each frame reads the world positions  *)
(* of the connected controllers; controllers come and go; the frames follow *)
(* one another within one clock reading.                                    *)
(***************************************************************************)
\* where a controller can be, in centimetres
Positions == {Vec(x, 0, z) : x \in {0, 20}, z \in {0, 20}}

SteerFrame ==
    \E l \in LiveInputs, r \in LiveInputs, pl \in Positions, pr \in Positions :
        \E W \in {onAnimate(World, l, r)} :
            /\ Commit(W)
            /\ gripEmitted' = W.gripEmitted
            /\ vibrations' = W.vibrations
            /\ \E position \in {[left |-> IF controller["left"] THEN pl
                                          ELSE steer.position["left"],
                                 right |-> IF controller["right"] THEN pr
                                           ELSE steer.position["right"]]} :
                   steer' = [position |-> position,
                             targetHandlebarRotation |->
                                 steerTarget(W, position, steer.targetHandlebarRotation)]
            /\ UNCHANGED <<now, gripZone, controller, manualResets, call,
                           lastGripEvent, bus, runs>>

NextSteer ==
    \/ InitializeGripZones
    \/ \E h \in Hands : ControllerConnect(h)
    \/ \E h \in Hands : ControllerDisconnect(h)
    \/ SteerFrame

SpecSteer == Init /\ [][NextSteer]_vars

(***************************************************************************)
(* The transition table of section 4.2, written out                        *)
(***************************************************************************)
TableEdges ==
    {<<READY, INITIATED>>,
     <<INITIATED, SPINNING>>, <<INITIATED, READY>>, <<INITIATED, FAILED>>,
     <<SPINNING, CATCH_WINDOW>>, <<SPINNING, FAILED>>,
     <<CATCH_WINDOW, CAUGHT>>, <<CATCH_WINDOW, FAILED>>,
     <<CAUGHT, READY>>, <<FAILED, READY>>}

TypesOf(events) == [i \in 1..Len(events) |-> events[i].type]

Count(seq, x) == Cardinality({i \in 1..Len(seq) : seq[i] = x})

\* the step is a rendered frame
IsFrame ==
    /\ Len(timers') >= Len(timers)
    /\ manualResets' = manualResets
    /\ gripZone' = gripZone
    /\ controller' = controller
    /\ call' = call

\* the frame emits gripStart / gripEnd for the hand
gripStartIn(h) == grip[h].state # GRIPPING /\ grip'[h].state = GRIPPING
gripEndIn(h) == grip[h].state = GRIPPING /\ grip'[h].state # GRIPPING

(***************************************************************************)
(* C1.  For every pair (from, to) of BarspinState values, setState accepts  *)
(* the change only if (from, to) is one of the ten listed edges; for every  *)
(* other pair with from # to the state is left unchanged and no stateChange *)
(* event is emitted.  (SpecUnit: setState called with every target from     *)
(* every state.)                                                            *)
(***************************************************************************)
C1_SetStateFollowsTable ==
    [][(Len(call') = Len(call) + 1 /\ call'[Len(call')].op = "setState") =>
          LET to == call'[Len(call')].to
          IN  /\ mech'.state # mech.state =>
                    /\ mech'.state = to
                    /\ <<mech.state, mech'.state>> \in TableEdges
              /\ (to # mech.state /\ <<mech.state, to>> \notin TableEdges) =>
                    /\ mech' = mech
                    /\ emitted' = <<>>]_vars

\* setState was asked for a pair outside the table, and declined
C1_Witness ==
    /\ Len(call) = 1
    /\ call[1].op = "setState"
    /\ call[1].to # mech.state
    /\ <<mech.state, call[1].to>> \notin TableEdges
    /\ emitted = <<>>

C3_AttachedImpliesGripping ==
    \A h \in Hands : grip[h].isAttached => grip[h].state = GRIPPING

\* a hand that stays attached while its controller is gone, after the other
\* hand has gripped and let go
C3_Witness ==
    \E h \in Hands :
        /\ grip[h].isAttached
        /\ ~controller[h]
        /\ grip[otherHandOf(h)].state = NEAR
        /\ \E i \in 1..Len(gripEmitted) : gripEmitted[i].type = "gripEnd"

(***************************************************************************)
(* C4.  In CATCH_WINDOW, after a first gripStart from hand h has set        *)
(* firstCatchHand = h, a further gripStart from the same hand emits no      *)
(* secondCatch and no success, leaves firstCatchHand = h and leaves the     *)
(* state CATCH_WINDOW; only a gripStart from the other hand moves the state *)
(* to CAUGHT.  Stated for the handler in every reachable state, and for     *)
(* every frame: without a gripStart of the other hand the frame ends in     *)
(* CATCH_WINDOW (or, when the window has run out, in FAILED), never CAUGHT. *)
(***************************************************************************)
C4_SamePressIgnored ==
    \A h \in Hands :
        (mech.state = CATCH_WINDOW /\ mech.firstCatchHand = h) =>
            /\ \E W \in {onGripPressed(World, h)} :
                  /\ W.mech = mech
                  /\ W.emitted = <<>>
                  /\ W.timers = timers
            /\ \E W \in {onGripPressed(World, otherHandOf(h))} :
                  /\ W.mech.state = CAUGHT
                  /\ TypesOf(W.emitted) = <<"stateChange", "secondCatch", "success">>

C4_SameHandNeverCatches ==
    /\ []C4_SamePressIgnored
    /\ [][\A h \in Hands :
            (mech.state = CATCH_WINDOW /\ mech.firstCatchHand = h
                /\ ~gripStartIn(otherHandOf(h))) =>
               /\ mech'.state \in {CATCH_WINDOW, FAILED}
               /\ mech'.firstCatchHand = h
               /\ \A i \in 1..Len(emitted') :
                     emitted'[i].type \notin {"firstCatch", "secondCatch", "success"}
               /\ mech'.state = CATCH_WINDOW => mech' = [mech EXCEPT
                     !.spinProgress = mech'.spinProgress,
                     !.currentRotation = mech'.currentRotation]]_vars

\* the hand that made the first catch pressed again, and nothing happened
C4_Witness ==
    \E h \in Hands :
        /\ mech.state = CATCH_WINDOW
        /\ mech.firstCatchHand = h
        /\ \E i \in 1..Len(gripEmitted) :
              gripEmitted[i].type = "gripStart" /\ gripEmitted[i].hand = h
        /\ emitted = <<>>
        /\ Count(attemptLog, "firstCatch") = 1

(***************************************************************************)
(* C5.  While the state is INITIATED and no grip event arrives, an update   *)
(* at which now - initiationStartTime <= initiationTimeout leaves the state *)
(* INITIATED; the first update at which it is > initiationTimeout moves the *)
(* state to FAILED, emits `failed` exactly once and schedules the           *)
(* auto-reset; later updates while FAILED emit no further `failed`.         *)
(***************************************************************************)
NoGripEvent == \A h \in Hands : ~gripStartIn(h) /\ ~gripEndIn(h)

C5_InitiationTimeout ==
    /\ [][(IsFrame /\ mech.state = INITIATED /\ NoGripEvent) =>
            IF now' - mech.initiationStartTime <= initiationTimeout
            THEN /\ mech' = mech
                 /\ emitted' = <<>>
                 /\ timers' = timers
            ELSE /\ mech' = [mech EXCEPT !.state = FAILED, !.previousState = INITIATED]
                 /\ emitted' = <<Event("stateChange", INITIATED, FAILED, NULL),
                                 Event("failed", NULL, FAILED, NULL)>>
                 /\ timers' = Append(timers, [due |-> now' + failureResetDelay,
                                              delay |-> failureResetDelay])]_vars
    /\ [][(IsFrame /\ mech.state = FAILED) =>
            /\ emitted' = <<>>
            /\ attemptLog' = attemptLog]_vars
    /\ [](Count(attemptLog, "failed") <= 1)

\* the initiation timed out, and a later frame found the mechanic FAILED
C5_Witness ==
    /\ mech.state = FAILED
    /\ mech.previousState = INITIATED
    /\ attemptLog = <<"initiated", "failed">>
    /\ emitted = <<>>
    /\ Len(timers) = 1
    /\ now > timers[1].due - failureResetDelay

(***************************************************************************)
(* C6.  A gripEnd(h) received in READY moves the mechanic to INITIATED with *)
(* initiatingHand = h and emits `initiated` with hand = h if and only if    *)
(* the other hand is attached at that moment; when the other hand is not    *)
(* attached the state stays READY, no event is emitted and no field of the  *)
(* attempt changes.  Stated for the handler in every reachable READY state  *)
(* in which h has let go, and for the frames that emit gripEnd(h) in READY  *)
(* (the left hand is updated first, so "at that moment" is the right hand's *)
(* attachment before the frame and the left hand's after it).               *)
(***************************************************************************)
C6_ReleaseInReady ==
    \A h \in Hands :
        (mech.state = READY /\ ~grip[h].isAttached) =>
            \E W \in {onGripReleased(World, h)} :
                IF grip[otherHandOf(h)].isAttached
                THEN /\ W.mech = [mech EXCEPT !.state = INITIATED,
                                              !.previousState = READY,
                                              !.initiatingHand = h,
                                              !.initiationStartTime = now]
                     /\ W.emitted = <<Event("stateChange", READY, INITIATED, NULL),
                                      Event("initiated", NULL, INITIATED, h)>>
                ELSE /\ W.mech = mech
                     /\ W.emitted = <<>>

C6_InitiationNeedsOtherHand ==
    /\ []C6_ReleaseInReady
    /\ [][\A h \in Hands :
            (IsFrame /\ mech.state = READY /\ gripEndIn(h)
                /\ (h = "right" => ~gripEndIn("left"))) =>
               IF (IF h = "left" THEN grip["right"].isAttached
                                 ELSE grip'["left"].isAttached)
               THEN /\ emitted'[1] = Event("stateChange", READY, INITIATED, NULL)
                    /\ emitted'[2] = Event("initiated", NULL, INITIATED, h)
                    /\ mech'.initiatingHand = h
                    /\ mech'.initiationStartTime = now'
                    /\ ~gripEndIn(otherHandOf(h)) => mech'.state = INITIATED
               ELSE /\ mech' = mech
                    /\ emitted' = <<>>]_vars

\* a hand let go in READY while the other was not attached: nothing happened
C6_Witness ==
    \E h \in Hands :
        /\ mech = InitMech
        /\ emitted = <<>>
        /\ ~grip[otherHandOf(h)].isAttached
        /\ \E i \in 1..Len(gripEmitted) :
              gripEmitted[i].type = "gripEnd" /\ gripEmitted[i].hand = h

(***************************************************************************)
(* C7.  A complete successful attempt emits `initiated`, `spinning`,        *)
(* `catchWindowOpen`, `firstCatch`, `secondCatch`, `success` each exactly   *)
(* once and in that order, ends in CAUGHT, and after successResetDelay the  *)
(* state is READY with all context fields cleared.  As safety: an attempt   *)
(* that has emitted `success` has emitted exactly these six in this order;  *)
(* the step that emits `success` ends in CAUGHT and schedules the reset     *)
(* successResetDelay later; CAUGHT is left only by that reset, not before   *)
(* it is due, and for READY with every field cleared.                       *)
(***************************************************************************)
SuccessfulAttempt ==
    <<"initiated", "spinning", "catchWindowOpen", "firstCatch", "secondCatch", "success">>

C7_SuccessfulAttempt ==
    /\ [](Count(attemptLog, "success") > 0 =>
            /\ attemptLog = SuccessfulAttempt
            /\ mech.state \in {CAUGHT, READY}
            /\ mech.state = READY => mech = InitMech /\ timers = <<>>)
    /\ [][(mech.state # CAUGHT /\ mech'.state = CAUGHT) =>
            /\ mech.state = CATCH_WINDOW
            /\ mech'.firstCatchHand \in Hands
            /\ mech.firstCatchHand \in {NULL, mech'.firstCatchHand}
            /\ Len(emitted') >= 3
            /\ SubSeq(emitted', Len(emitted') - 2, Len(emitted')) =
                  <<Event("stateChange", CATCH_WINDOW, CAUGHT, NULL),
                    Event("secondCatch", NULL, CAUGHT, otherHandOf(mech'.firstCatchHand)),
                    Event("success", NULL, CAUGHT, NULL)>>
            /\ timers' = <<[due |-> now' + successResetDelay,
                            delay |-> successResetDelay]>>]_vars
    /\ [][(mech.state = CAUGHT /\ mech'.state # CAUGHT) =>
            /\ now >= timers[1].due
            /\ mech' = InitMech
            /\ emitted' = <<>>
            /\ attemptLog' = attemptLog]_vars

\* the attempt succeeded and the reset has brought the mechanic back to READY
C7_Witness ==
    /\ attemptLog = SuccessfulAttempt
    /\ mech = InitMech
    /\ timers = <<>>
    /\ now >= successResetDelay

(***************************************************************************)
(* C8.  In CATCH_WINDOW, if no second distinct-hand gripStart arrives, the  *)
(* first update at which now - catchWindowStartTime > catchWindowDuration   *)
(* emits `catchWindowClose` (while the state is still CATCH_WINDOW), then   *)
(* changes the state to FAILED, then emits `failed`, each exactly once and  *)
(* in that order, and after failureResetDelay the state returns to READY.   *)
(* As safety: a frame from CATCH_WINDOW that does not complete the catch    *)
(* stays in CATCH_WINDOW while the window lasts and otherwise emits the     *)
(* three events in this order and schedules the reset; FAILED is left only  *)
(* by a reset that is due, for READY.                                       *)
(***************************************************************************)
WithoutFirstCatch(events) == SelectSeq(events, LAMBDA e : e.type # "firstCatch")

C8_CatchWindowTimeout ==
    /\ [][(IsFrame /\ mech.state = CATCH_WINDOW /\ mech'.state # CAUGHT) =>
            IF now' - mech.catchWindowStartTime <= catchWindowDuration
            THEN /\ mech'.state = CATCH_WINDOW
                 /\ WithoutFirstCatch(emitted') = <<>>
                 /\ timers' = timers
            ELSE /\ mech'.state = FAILED
                 /\ WithoutFirstCatch(emitted') =
                       <<Event("catchWindowClose", NULL, CATCH_WINDOW, NULL),
                         Event("stateChange", CATCH_WINDOW, FAILED, NULL),
                         Event("failed", NULL, FAILED, NULL)>>
                 /\ timers' = Append(timers, [due |-> now' + failureResetDelay,
                                              delay |-> failureResetDelay])]_vars
    /\ [](Count(attemptLog, "catchWindowClose") > 0 =>
            /\ Count(attemptLog, "catchWindowClose") = 1
            /\ Count(attemptLog, "failed") = 1
            /\ attemptLog[Len(attemptLog) - 1] = "catchWindowClose"
            /\ attemptLog[Len(attemptLog)] = "failed"
            /\ mech.state \in {FAILED, READY})
    /\ [][(mech.state = FAILED /\ mech'.state # FAILED) =>
            /\ \E i \in 1..Len(timers) :
                  timers[i].delay = failureResetDelay /\ now >= timers[i].due
            /\ mech' = InitMech]_vars

\* the catch window ran out, and the reset has brought the mechanic back to READY
C8_Witness ==
    /\ attemptLog = <<"initiated", "spinning", "catchWindowOpen",
                      "catchWindowClose", "failed">>
    /\ mech = InitMech
    /\ timers = <<>>
    /\ now >= catchWindowDuration + failureResetDelay

(***************************************************************************)
(* C9.  A gripStart received while the state is INITIATED returns the       *)
(* mechanic to READY with every field of the attempt cleared; for that      *)
(* attempt neither `failed` nor `success` is emitted, and no reset timer is *)
(* scheduled.  Stated for the handler in every reachable INITIATED state,   *)
(* and for the frames in which a gripStart is the only grip event.          *)
(***************************************************************************)
C9_PressInInitiated ==
    \A h \in Hands :
        mech.state = INITIATED =>
            \E W \in {onGripPressed(World, h)} :
                /\ W.mech = InitMech
                /\ W.emitted = <<>>
                /\ W.timers = timers

C9_CancelledAttempt ==
    /\ []C9_PressInInitiated
    /\ [][\A h \in Hands :
            (IsFrame /\ mech.state = INITIATED /\ gripStartIn(h)
                /\ ~gripStartIn(otherHandOf(h)) /\ ~gripEndIn(otherHandOf(h))) =>
               /\ mech' = InitMech
               /\ emitted' = <<>>
               /\ timers' = timers
               /\ attemptLog' = <<"initiated">>]_vars
    /\ []((mech.state = READY /\ attemptLog = <<"initiated">>) => timers = <<>>)

\* an attempt was cancelled by gripping again, some time after it began
C9_Witness ==
    /\ mech = InitMech
    /\ attemptLog = <<"initiated">>
    /\ timers = <<>>
    /\ \E i \in 1..Len(gripEmitted) : gripEmitted[i].type = "gripStart"
    /\ now > TickMs

(***************************************************************************)
(* C10.  Calling resetToReady() from any of the six states, with any values *)
(* of the context fields, leaves state = READY and spinDirection = null,    *)
(* spinStartTime = 0, spinProgress = 0, currentRotation = 0,                *)
(* initiatingHand = null, initiationStartTime = 0, catchWindowStartTime = 0 *)
(* and firstCatchHand = null; calling it a second time changes nothing.     *)
(***************************************************************************)
C10_ResetIsIdempotent ==
    [][(Len(call') = Len(call) + 1 /\ call'[Len(call')].op = "resetToReady") =>
          /\ mech'.state = READY
          /\ mech'.spinDirection = NULL
          /\ mech'.spinStartTime = 0
          /\ mech'.spinProgress = 0
          /\ mech'.currentRotation = 0
          /\ mech'.initiatingHand = NULL
          /\ mech'.initiationStartTime = 0
          /\ mech'.catchWindowStartTime = 0
          /\ mech'.firstCatchHand = NULL
          /\ (Len(call) > 0 /\ call[Len(call)].op = "resetToReady") =>
                /\ mech' = mech
                /\ emitted' = <<>>
                /\ timers' = timers]_vars

\* resetToReady() was called twice in a row, first in the catch window
C10_Witness ==
    /\ Len(call) = 2
    /\ call[1].op = "resetToReady"
    /\ call[1].from = CATCH_WINDOW
    /\ call[2].op = "resetToReady"
    /\ mech = InitMech

(***************************************************************************)
(* C11.  A deferred auto-reset callback scheduled on entering CAUGHT or     *)
(* FAILED is a no-op if the mechanic has already left that state when it    *)
(* fires: if resetToReady() was called from outside and a new attempt is in *)
(* INITIATED, SPINNING or CATCH_WINDOW when the stale timer fires, the      *)
(* state and all context fields of the new attempt are unchanged.           *)
(***************************************************************************)
\* the step is the firing of a reset timer
IsTimerFire == Len(timers') < Len(timers)

C11_StaleTimerIsNoOp ==
    [][(IsTimerFire /\ mech.state \in {INITIATED, SPINNING, CATCH_WINDOW}) =>
          mech' = mech]_vars

\* a new attempt is under way and the timer of the attempt before it is due
C11_Witness ==
    /\ manualResets = 1
    /\ mech.state \in {INITIATED, SPINNING, CATCH_WINDOW}
    /\ Len(timers) = 1
    /\ now >= timers[1].due

(***************************************************************************)
(* C12.  Under fair frame ticks and timer firing, every entry into CAUGHT   *)
(* or FAILED is eventually followed by READY with no other state in         *)
(* between, no reachable state of the mechanic is a deadlock, and from      *)
(* every reachable state READY is eventually reached again.                 *)
(***************************************************************************)
C12_NoDeadlock ==
    /\ mech.state \in {CAUGHT, FAILED} => timers # <<>>
    /\ mech.state # READY => ENABLED (LiveTick \/ LiveTimerFire)

C12_AlwaysBackToReady ==
    /\ [][mech.state \in {CAUGHT, FAILED} => mech'.state \in {mech.state, READY}]_vars
    /\ (mech.state \in {CAUGHT, FAILED}) ~> (mech.state = READY)
    /\ []C12_NoDeadlock
    /\ []<>(mech.state = READY)

\* an attempt has failed, the reset has run and the mechanic is idle again
C12_Witness ==
    /\ Idle
    /\ Len(attemptLog) > 0
    /\ attemptLog[Len(attemptLog)] = "failed"
    /\ Count(attemptLog, "catchWindowClose") = 1

(***************************************************************************)
(* C13.  After updateHandGrip for a hand whose zone and controller are      *)
(* present, the hand's state is GRIPPING iff distance < proximityThreshold  *)
(* and the grip button is pressed and distance < grabThreshold; otherwise   *)
(* NEAR iff distance < proximityThreshold; otherwise IDLE.  The new state   *)
(* is a function of the current frame's distance and button only, never of  *)
(* the previous state.  Stated for updateHandGrip applied in every          *)
(* reachable state to every distance of ProbeDistances and both button      *)
(* readings, and for the state every hand is left in.                       *)
(***************************************************************************)
ProbeDistances ==
    {0, 50, grabThreshold - 1, grabThreshold, grabThreshold + 1, 90,
     proximityThreshold - 1, proximityThreshold, proximityThreshold + 1, 120}

StateFor(h, distance, squeeze) ==
    IF distance < gripZone[h].proximityThreshold
          /\ squeeze /\ distance < gripZone[h].grabThreshold
    THEN GRIPPING
    ELSE IF distance < gripZone[h].proximityThreshold THEN NEAR ELSE IDLE

C13_StateFromDistanceAndButton ==
    /\ \A h \in Hands :
          grip[h].state = StateFor(h, grip[h].distance, grip[h].gripButtonPressed)
    /\ \A h \in Hands, d \in ProbeDistances, b \in BOOLEAN :
          (gripZone[h].present /\ controller[h]) =>
             \E W \in {updateHandGrip(World, h, d, b)} :
                /\ W.grip[h].state = StateFor(h, d, b)
                /\ W.grip[h].distance = d
                /\ W.grip[h].gripButtonPressed = b

\* a hand that was gripping still squeezes, 90 mm from the grip: it is NEAR
C13_Witness ==
    \E h \in Hands :
        /\ grip[h].state = NEAR
        /\ grip[h].gripButtonPressed
        /\ grip[h].distance = 90
        /\ \E i \in 1..Len(gripEmitted) :
              gripEmitted[i].type = "gripEnd" /\ gripEmitted[i].hand = h

(***************************************************************************)
(* C14.  A single update of one hand emits at most one of the four grip     *)
(* events (enterProximity, exitProximity, gripStart, gripEnd) for that      *)
(* hand, for every (previousState, newState) pair; two grip events in one   *)
(* frame can only belong to different hands.                                *)
(***************************************************************************)
\* the types of the grip events of the last frame that belong to the hand
HandEvents(h) == TypesOf(SelectSeq(gripEmitted, LAMBDA e : e.hand = h))

\* the claim as made
C14_OneEventPerHand == \A h \in Hands : Len(HandEvents(h)) <= 1

\* As amended: an update of one hand emits no event when the state stays,
\* and otherwise one event, except that IDLE -> GRIPPING emits enterProximity
\* and then gripStart, and GRIPPING -> IDLE emits exitProximity and then
\* gripEnd; no type is emitted twice.
EventsFor(previousState, newState) ==
    CASE previousState = newState -> <<>>
      [] previousState = IDLE /\ newState = NEAR -> <<"enterProximity">>
      [] previousState = IDLE /\ newState = GRIPPING -> <<"enterProximity", "gripStart">>
      [] previousState = NEAR /\ newState = IDLE -> <<"exitProximity">>
      [] previousState = NEAR /\ newState = GRIPPING -> <<"gripStart">>
      [] previousState = GRIPPING /\ newState = IDLE -> <<"exitProximity", "gripEnd">>
      [] previousState = GRIPPING /\ newState = NEAR -> <<"gripEnd">>

C14_EventsOfOneUpdate ==
    [][IsFrame => \A h \in Hands :
          HandEvents(h)' = EventsFor(grip[h].state, grip'[h].state)]_vars

\* a squeezing hand arrived on the grip from outside the zone in one frame
C14_Witness ==
    \E h \in Hands :
        /\ HandEvents(h) = <<"enterProximity", "gripStart">>
        /\ grip[h].state = GRIPPING

(***************************************************************************)
(* C15.  For each hand and every input sequence, gripStart and gripEnd      *)
(* strictly alternate starting with gripStart, and enterProximity and       *)
(* exitProximity strictly alternate starting with enterProximity: no event  *)
(* is emitted in a frame whose state equals the previous frame's state, and *)
(* every change into or out of GRIPPING (resp. IDLE) emits its event        *)
(* exactly once.                                                            *)
(***************************************************************************)
OneIf(b) == IF b THEN 1 ELSE 0

C15_EventsAlternate ==
    [][IsFrame => \A h \in Hands :
          /\ grip'[h].state = grip[h].state => HandEvents(h)' = <<>>
          /\ Count(HandEvents(h)', "gripStart") =
                OneIf(grip[h].state # GRIPPING /\ grip'[h].state = GRIPPING)
          /\ Count(HandEvents(h)', "gripEnd") =
                OneIf(grip[h].state = GRIPPING /\ grip'[h].state # GRIPPING)
          /\ Count(HandEvents(h)', "enterProximity") =
                OneIf(grip[h].state = IDLE /\ grip'[h].state # IDLE)
          /\ Count(HandEvents(h)', "exitProximity") =
                OneIf(grip[h].state # IDLE /\ grip'[h].state = IDLE)
          /\ Count(HandEvents(h)', "gripStart") > 0 =>
                lastGripEvent[h].grip \in {"none", "gripEnd"}
          /\ Count(HandEvents(h)', "gripEnd") > 0 =>
                lastGripEvent[h].grip = "gripStart"
          /\ Count(HandEvents(h)', "enterProximity") > 0 =>
                lastGripEvent[h].proximity \in {"none", "exitProximity"}
          /\ Count(HandEvents(h)', "exitProximity") > 0 =>
                lastGripEvent[h].proximity = "enterProximity"]_vars

\* one hand has gripped and left the zone again; the other arrives gripping
C15_Witness ==
    \E h \in Hands :
        /\ HandEvents(h) = <<"enterProximity", "gripStart">>
        /\ lastGripEvent[h] = [grip |-> "gripStart", proximity |-> "enterProximity"]
        /\ lastGripEvent[otherHandOf(h)] =
              [grip |-> "gripEnd", proximity |-> "exitProximity"]

(***************************************************************************)
(* C16.  In a frame where a hand's grip zone is not initialized or its      *)
(* controller is absent, GripSystem.update() leaves every field of that     *)
(* hand's HandGripData unchanged and emits no event for that hand (the      *)
(* state stays IDLE while the zones were never initialized); the other hand *)
(* is still updated, and once zone and controller are present the next      *)
(* update() computes the state normally.                                    *)
(***************************************************************************)
Skipped(h) == ~gripZone[h].present \/ ~controller[h]

InputOf(h, l, r) == IF h = "left" THEN l ELSE r

C16_UpdateSkipsOrComputes ==
    \A l \in Inputs, r \in Inputs :
        \E W \in {gripUpdate(World, l, r)} :
            \A h \in Hands :
                IF Skipped(h)
                THEN /\ W.grip[h] = grip[h]
                     /\ \A i \in 1..Len(W.gripEmitted) : W.gripEmitted[i].hand # h
                     /\ \A i \in 1..Len(W.vibrations) : W.vibrations[i].hand # h
                ELSE /\ W.grip[h].distance = InputOf(h, l, r).distance
                     /\ W.grip[h].gripButtonPressed = InputOf(h, l, r).squeeze
                     /\ W.grip[h].state = StateFor(h, InputOf(h, l, r).distance,
                                                   InputOf(h, l, r).squeeze)

C16_SkippedHandUnchanged ==
    /\ []C16_UpdateSkipsOrComputes
    /\ [](\A h \in Hands : ~gripZone[h].present => grip[h] = createHandGripData)
    /\ [][IsFrame => \A h \in Hands :
            Skipped(h) => grip'[h] = grip[h] /\ HandEvents(h)' = <<>>]_vars

\* a hand's controller went away while it was gripping; the data of that hand
\* is as it was, and the last frame moved the other hand out of the zone
C16_Witness ==
    \E h \in Hands :
        /\ ~controller[h]
        /\ grip[h].state = GRIPPING
        /\ grip[h].isAttached
        /\ HandEvents(h) = <<>>
        /\ HandEvents(otherHandOf(h)) = <<"exitProximity", "gripEnd">>

(***************************************************************************)
(* C17.  Every GripZone created by initializeGripZones satisfies            *)
(* grabThreshold < proximityThreshold, for any values the public            *)
(* proximityThreshold and grabThreshold configuration fields hold when it   *)
(* is called; an inverted or equal ordering is rejected or corrected.       *)
(***************************************************************************)
C17_GrabBelowProximity ==
    \A h \in Hands :
        gripZone[h].present => gripZone[h].grabThreshold < gripZone[h].proximityThreshold

\* a zone with the thresholds inverted: a hand squeezing 90 mm from the grip,
\* inside the grab distance, is IDLE
C17_Witness ==
    \E h \in Hands :
        /\ gripZone[h].present
        /\ gripZone[h].grabThreshold > gripZone[h].proximityThreshold
        /\ grip[h].distance = 90
        /\ grip[h].gripButtonPressed
        /\ grip[h].state = IDLE

(***************************************************************************)
(* C18.  Spin direction is fixed at the INITIATED -> SPINNING transition    *)
(* and never changes until reset: in every reachable state with state in   *)
(* {SPINNING, CATCH_WINDOW, CAUGHT}, spinDirection is clockwise if          *)
(* initiatingHand is right and counterclockwise if initiatingHand is left,  *)
(* and spinDirection is null in READY and INITIATED.                        *)
(***************************************************************************)
DirectionOf(hand) == IF hand = "right" THEN "clockwise" ELSE "counterclockwise"

C18_DirectionMatchesHand ==
    /\ mech.state \in {SPINNING, CATCH_WINDOW, CAUGHT} =>
          /\ mech.initiatingHand \in Hands
          /\ mech.spinDirection = DirectionOf(mech.initiatingHand)
    /\ mech.state \in {READY, INITIATED} => mech.spinDirection = NULL

Emitted == bus.type # NULL

C19_DeliveredToRegistered == Emitted => bus.calls = bus.before

\* the first listener removed the second while the event was being
\* delivered: the second was registered when the emission began, and was
\* never called
C19_Witness ==
    /\ Emitted
    /\ bus.before = <<"a", "b">>
    /\ bus.calls = <<"a">>
    /\ bus.listeners[bus.type] = <<"a">>

\* an emission during which no listener changes the registrations
C19_QuietEmission ==
    (Emitted /\ bus.listeners[bus.type] = bus.before) => bus.calls = bus.before

(***************************************************************************)
(* C20.  When a listener adds or removes listeners of the same event type   *)
(* during an emission, the set of listeners that receive the in-flight      *)
(* emission is unchanged: a listener removed mid-emission that had not yet  *)
(* run still runs exactly once, no remaining listener is skipped, and a     *)
(* listener added mid-emission is not called for that emission.             *)
(***************************************************************************)
C20_DeliverySetUnchanged ==
    (Emitted /\ bus.listeners[bus.type] # bus.before) =>
        /\ \A l \in ListenerIds : Count(bus.calls, l) = Count(bus.before, l)
        /\ Len(bus.calls) = Len(bus.before)

\* the first listener removed itself while the event was being delivered:
\* the second moved into its place and was skipped
C20_Witness ==
    /\ Emitted
    /\ bus.before = <<"a", "b">>
    /\ bus.calls = <<"a">>
    /\ bus.listeners[bus.type] = <<"b">>

(***************************************************************************)
(* C21.  Whenever the mechanic's state is READY (after construction and     *)
(* after every return to READY by cancel, auto-reset or manual reset), all  *)
(* trick-attempt-context fields hold their initial values: spinDirection,   *)
(* initiatingHand and firstCatchHand are null and spinProgress,             *)
(* currentRotation, spinStartTime, initiationStartTime and                  *)
(* catchWindowStartTime are 0.                                              *)
(***************************************************************************)
C21_ReadyMeansCleared ==
    mech.state = READY =>
        /\ mech.spinDirection = NULL
        /\ mech.initiatingHand = NULL
        /\ mech.firstCatchHand = NULL
        /\ mech.spinProgress = 0
        /\ mech.currentRotation = 0
        /\ mech.spinStartTime = 0
        /\ mech.initiationStartTime = 0
        /\ mech.catchWindowStartTime = 0

\* an attempt was cancelled by gripping again some time after it began, after
\* an earlier attempt had been ended from outside
C21_Witness ==
    /\ mech.state = READY
    /\ manualResets = 1
    /\ attemptLog = <<"initiated">>
    /\ writes = <<[from |-> INITIATED, to |-> READY, validated |-> FALSE]>>
    /\ \E i \in 1..Len(gripEmitted) : gripEmitted[i].type = "gripStart"

(***************************************************************************)
(* C22.  A gripStart completes a successful catch (state CAUGHT, `success`  *)
(* emitted) only if it is processed no later than catchWindowDuration ms    *)
(* after catchWindowStartTime; a second distinct-hand gripStart processed   *)
(* after the window has elapsed (including in the frame whose update()      *)
(* would detect the expiry) does not produce `success`.                     *)
(***************************************************************************)
C22_CatchOnlyWithinWindow ==
    [][(IsFrame /\ mech.state = CATCH_WINDOW
            /\ now' - mech.catchWindowStartTime > catchWindowDuration) =>
          /\ mech'.state # CAUGHT
          /\ \A i \in 1..Len(emitted') : emitted'[i].type # "success"]_vars

\* a catch completed in a frame that came after the window had run out
C22_Witness ==
    /\ mech.state = CAUGHT
    /\ Len(timers) = 1
    /\ (timers[1].due - successResetDelay) - mech.catchWindowStartTime
          > catchWindowDuration
    /\ attemptLog = SuccessfulAttempt

(***************************************************************************)
(* C23.  The INITIATED -> SPINNING transition is taken only if the second   *)
(* hand's gripEnd is processed no later than initiationTimeout ms after     *)
(* initiationStartTime; once the elapsed time exceeds initiationTimeout the *)
(* attempt ends in FAILED and never in SPINNING, even when the late gripEnd *)
(* and the detecting update() fall in the same frame.                       *)
(***************************************************************************)
C23_SpinOnlyWithinTimeout ==
    [][(IsFrame /\ mech.state = INITIATED
            /\ now' - mech.initiationStartTime > initiationTimeout) =>
          /\ mech'.state # SPINNING
          /\ \A i \in 1..Len(emitted') : emitted'[i].type # "spinning"]_vars

\* a spin that began more than initiationTimeout after the initiation
C23_Witness ==
    /\ mech.state = SPINNING
    /\ mech.spinStartTime - mech.initiationStartTime > initiationTimeout
    /\ attemptLog = <<"initiated", "spinning">>

(***************************************************************************)
(* C24.  While the state is CAUGHT or FAILED, no gripStart, gripEnd or      *)
(* update() call changes the state or any trick-attempt-context field or    *)
(* emits any mechanic event; the state leaves CAUGHT/FAILED only by the     *)
(* reset, and the automatic reset does not occur before successResetDelay   *)
(* (for CAUGHT) or failureResetDelay (for FAILED) has elapsed since entry.  *)
(***************************************************************************)
\* the time at which the state was entered: the reset scheduled on entry is
\* the last one scheduled
EntryTime == timers[Len(timers)].due - timers[Len(timers)].delay

ResetDelayOf(state) == IF state = CAUGHT THEN successResetDelay ELSE failureResetDelay

\* the handlers and the frames change nothing in CAUGHT or FAILED, and only a
\* reset leaves these states
C24_TerminalInert ==
    /\ [](mech.state \in {CAUGHT, FAILED} =>
            /\ \A h \in Hands :
                  /\ \E W \in {onGripPressed(World, h)} :
                        W.mech = mech /\ W.emitted = <<>> /\ W.timers = timers
                  /\ \E W \in {onGripReleased(World, h)} :
                        W.mech = mech /\ W.emitted = <<>> /\ W.timers = timers
            /\ \E W \in {update(World)} :
                  W.mech = mech /\ W.emitted = <<>> /\ W.timers = timers)
    /\ [][(IsFrame /\ mech.state \in {CAUGHT, FAILED}) =>
            /\ mech' = mech
            /\ emitted' = <<>>
            /\ timers' = timers]_vars
    /\ [][(mech.state \in {CAUGHT, FAILED} /\ mech' # mech) =>
            /\ IsTimerFire \/ manualResets' # manualResets
            /\ mech' = InitMech
            /\ emitted' = <<>>]_vars

\* the claim as made
C24_TerminalStatesHold ==
    /\ C24_TerminalInert
    /\ [][(IsTimerFire /\ mech.state \in {CAUGHT, FAILED}) =>
            now >= EntryTime + ResetDelayOf(mech.state)]_vars

\* an attempt has just failed while the reset timer of the attempt before it,
\* which was ended from outside, is due
C24_Witness ==
    /\ mech.state = FAILED
    /\ manualResets = 1
    /\ Len(timers) = 2
    /\ now >= timers[1].due
    /\ now < timers[2].due

(***************************************************************************)
(* C25.  In every reachable state 0 <= spinProgress <= 1 and                *)
(* currentRotation = spinProgress * 2*pi; spinProgress never decreases      *)
(* between entering SPINNING and the next reset; after every update(),      *)
(* state = SPINNING implies spinProgress < 0.8 and state = CATCH_WINDOW     *)
(* implies spinProgress >= 0.8; `catchWindowOpen` is emitted exactly once   *)
(* per attempt, in the update() that first observes spinProgress >= 0.8.    *)
(* (spinProgress is the numerator over spinDuration, currentRotation is in  *)
(* whole degrees.)                                                          *)
(***************************************************************************)
C25_ProgressInRange ==
    /\ mech.spinProgress \in 0..spinDuration
    /\ mech.currentRotation * spinDuration <= mech.spinProgress * targetRotation
    /\ mech.spinProgress * targetRotation < (mech.currentRotation + 1) * spinDuration
    /\ mech.state = SPINNING => ~reachedCatchWindow(mech.spinProgress)
    /\ mech.state = CATCH_WINDOW => reachedCatchWindow(mech.spinProgress)
    /\ mech.state \in {INITIATED, SPINNING} => Count(attemptLog, "catchWindowOpen") = 0
    /\ mech.state \in {CATCH_WINDOW, CAUGHT} => Count(attemptLog, "catchWindowOpen") = 1

C25_SpinProgress ==
    /\ []C25_ProgressInRange
    /\ [](Count(attemptLog, "catchWindowOpen") <= 1)
    /\ [][(mech.state \in {SPINNING, CATCH_WINDOW, CAUGHT, FAILED}
              /\ mech'.state # READY) =>
            mech'.spinProgress >= mech.spinProgress]_vars
    /\ [][IsFrame =>
            /\ Count(TypesOf(emitted'), "catchWindowOpen") =
                  OneIf(mech.state = SPINNING
                          /\ reachedCatchWindow(progressOf(now' - mech.spinStartTime)))
            /\ Count(TypesOf(emitted'), "catchWindowOpen") = 1 =>
                  /\ mech'.state = CATCH_WINDOW
                  /\ mech'.catchWindowStartTime = now'
                  /\ ~reachedCatchWindow(mech.spinProgress)]_vars

\* the spin is complete and the catch window, opened by an earlier update, is
\* still open
C25_Witness ==
    /\ mech.state = CATCH_WINDOW
    /\ mech.spinProgress = spinDuration
    /\ mech.currentRotation = targetRotation
    /\ emitted = <<>>
    /\ attemptLog = <<"initiated", "spinning", "catchWindowOpen">>

(***************************************************************************)
(* C26.  In no run does the state change directly from SPINNING to FAILED:  *)
(* the only transition the mechanic itself takes out of SPINNING is to      *)
(* CATCH_WINDOW, and grip events received in SPINNING change nothing.       *)
(* Stated for the two grip handlers in every reachable SPINNING state, for  *)
(* every step, and for the frames that start in SPINNING: they end in       *)
(* SPINNING or, when the update finds spinProgress >= 0.8, in CATCH_WINDOW, *)
(* whatever the hands do.                                                   *)
(***************************************************************************)
C26_GripEventsIgnored ==
    mech.state = SPINNING =>
        \A h \in Hands :
            /\ \E W \in {onGripPressed(World, h)} :
                  W.mech = mech /\ W.emitted = <<>> /\ W.timers = timers
            /\ \E W \in {onGripReleased(World, h)} :
                  W.mech = mech /\ W.emitted = <<>> /\ W.timers = timers

C26_SpinningLeadsToCatchWindow ==
    /\ []C26_GripEventsIgnored
    /\ [][mech.state = SPINNING => mech'.state # FAILED]_vars
    /\ [][(IsFrame /\ mech.state = SPINNING) =>
            /\ mech'.state =
                  IF reachedCatchWindow(progressOf(now' - mech.spinStartTime))
                  THEN CATCH_WINDOW ELSE SPINNING
            /\ \A i \in 1..Len(emitted') :
                  emitted'[i].type \in {"stateChange", "catchWindowOpen"}
            /\ mech'.firstCatchHand = NULL
            /\ timers' = timers]_vars

\* both hands came back to the grip while the bars were spinning, and the
\* spin went on
C26_Witness ==
    /\ mech.state = SPINNING
    /\ Len(gripEmitted) = 2
    /\ mech.spinProgress > 0
    /\ emitted = <<>>
    /\ attemptLog = <<"initiated", "spinning">>

(***************************************************************************)
(* C27.  The spin duration used to advance spinProgress is derived from the *)
(* initiating hand's peak yaw angular velocity at initiation: velocities at *)
(* or below the low threshold give the slowest (longest) duration,          *)
(* velocities at or above the high threshold give the fastest (shortest)    *)
(* duration, with linear interpolation between, so that a faster flick      *)
(* reaches the 0.8 catch-window boundary sooner.                            *)
(***************************************************************************)
\* the duration the claim describes, with the figures of the implementation
\* plan: 1.5 rad/s and below, 600 ms; 6 rad/s and above, 300 ms
claimedSpinDuration(y) ==
    IF y <= 150 THEN 600
    ELSE IF y >= 600 THEN 300
    ELSE 600 - ((y - 150) * (600 - 300)) \div (600 - 150)

\* spinProgress = min(elapsed / duration, 1) with the duration of the flick
C27_DurationFromVelocity ==
    \A i \in RunIds :
        runs[i].mech.state \in {SPINNING, CATCH_WINDOW} =>
            LET D == claimedSpinDuration(runs[i].flick)
                elapsed == now - runs[i].mech.spinStartTime
            IN  /\ runs[i].mech.spinProgress * D =
                      (IF elapsed < D THEN elapsed ELSE D) * spinDuration
                /\ runs[i].mech.state = SPINNING => 10 * elapsed < 8 * D

\* a spin that began with a fast flick is, one frame later, as far as the
\* spin that began with a slow one, and the catch window has not opened
C27_Witness ==
    /\ runs[2].flick = FastYaw
    /\ runs[1].flick = SlowYaw
    /\ runs[2].mech.state = SPINNING
    /\ now - runs[2].mech.spinStartTime = TickMs
    /\ runs[2].mech.spinProgress = runs[1].mech.spinProgress
    /\ runs[2].mech.spinProgress = TickMs

GripHandlerEvents == {"initiated", "spinning", "firstCatch", "secondCatch", "success"}

UpdateEvents == {"catchWindowOpen", "catchWindowClose", "failed"}

C29_GripSystemFirst ==
    [][IsFrame =>
          /\ \A i \in 1..Len(emitted'), j \in 1..Len(emitted') :
                (i < j /\ emitted'[i].type \in UpdateEvents) =>
                    /\ emitted'[j].type \notin GripHandlerEvents
                    /\ emitted'[j].type = "stateChange" =>
                          emitted'[j].currentState = FAILED
          /\ mech.state = SPINNING => mech'.firstCatchHand = NULL
          /\ (mech.state = INITIATED /\ (\E h \in Hands : gripEndIn(h))
                 /\ \A h \in Hands : ~gripStartIn(h)) =>
                /\ mech'.state = SPINNING
                /\ mech'.spinStartTime = now'
                /\ mech'.spinProgress = 0
          /\ \A h \in Hands :
                (mech.state = CATCH_WINDOW /\ mech.firstCatchHand = h
                    /\ gripStartIn(otherHandOf(h))) => mech'.state = CAUGHT
          /\ (mech.state = READY /\ mech'.state = INITIATED) =>
                /\ mech'.initiationStartTime = now'
                /\ \A i \in 1..Len(emitted') : emitted'[i].type # "failed"]_vars

\* a hand gripped again in the frame whose update opened the catch window:
\* the gripStart reached the mechanic while it was still SPINNING
C29_Witness ==
    /\ mech.state = CATCH_WINDOW
    /\ mech.catchWindowStartTime = now
    /\ mech.firstCatchHand = NULL
    /\ Len(gripEmitted) > 0
    /\ TypesOf(emitted) = <<"stateChange", "catchWindowOpen">>

(***************************************************************************)
(* C30.  No operation of BarspinMechanic (grip-event handlers, update(),    *)
(* resetToReady(), reset-timer callbacks) changes any HandGripData field or *)
(* grip zone of GripSystem; both hands' state, isAttached, attachedSide and *)
(* distance are the same before and after each such operation.  Stated for  *)
(* each operation applied in every reachable state, for the steps that are  *)
(* a timer callback or an outside resetToReady(), and for the frames: what  *)
(* a frame leaves in a hand's data is what the GripSystem computes from the *)
(* hand's pose and button, whatever the mechanic did in that frame.         *)
(***************************************************************************)
C30_OperationsLeaveGrip ==
    /\ \A h \in Hands :
          /\ \E W \in {onGripReleased(World, h)} : W.grip = grip
          /\ \E W \in {onGripPressed(World, h)} : W.grip = grip
    /\ \E W \in {update(World)} : W.grip = grip
    /\ \E W \in {resetToReady(World)} : W.grip = grip

C30_MechanicLeavesGripSystem ==
    /\ []C30_OperationsLeaveGrip
    /\ [][gripZone' = gripZone]_vars
    /\ [][(IsTimerFire \/ manualResets' # manualResets) => grip' = grip]_vars
    /\ [][IsFrame => \A h \in Hands :
            /\ grip'[h].state = StateFor(h, grip'[h].distance,
                                         grip'[h].gripButtonPressed)
            /\ grip'[h].isNear = (grip'[h].state # IDLE)
            /\ grip'[h].isAttached = (grip'[h].state = GRIPPING)
            /\ grip'[h].attachedSide = IF grip'[h].state = GRIPPING THEN h ELSE NULL
            /\ (grip'[h].state = grip[h].state) =>
                  grip'[h].attachmentOffset = grip[h].attachmentOffset]_vars

\* the reset timer of a successful catch fired while both hands held the bars,
\* and they still hold them
C30_Witness ==
    /\ mech = InitMech
    /\ manualResets = 0
    /\ timers = <<>>
    /\ writes = <<[from |-> CAUGHT, to |-> READY, validated |-> FALSE]>>
    /\ \A h \in Hands : grip[h].isAttached /\ grip[h].attachedSide = h
    /\ attemptLog = SuccessfulAttempt

(***************************************************************************)
(* C31.  Whenever areBothHandsAttached() is false, or either controller is  *)
(* absent, calculateHandlebarRotation() returns 0, getControllerMidpoint()  *)
(* returns null and getControllerSpread() returns 0, and the steering       *)
(* target the frame loop computes is 0; the frame loop's target steering    *)
(* angle always lies in [-maxHandlebarRotation, +maxHandlebarRotation].     *)
(* Stated for the state after every step, and for the target after every    *)
(* frame (a controller that disconnects leaves the target as the last frame *)
(* computed it).                                                            *)
(***************************************************************************)
C31_Neutral ==
    /\ (~areBothHandsAttached(World) \/ ~controller["left"] \/ ~controller["right"])
       => /\ calculateHandlebarRotation(World, steer.position) = 0
          /\ getControllerMidpoint(World, steer.position) = NULL
          /\ getControllerSpread(World, steer.position) = 0
    /\ ~areBothHandsAttached(World) => steer.targetHandlebarRotation = 0
    /\ steer.targetHandlebarRotation >= -maxHandlebarRotation
    /\ steer.targetHandlebarRotation <= maxHandlebarRotation

C31_SteeringNeutralAndBounded ==
    [][/\ C31_Neutral'
       /\ (IsFrame /\ gripZone["left"].present
           /\ (~controller["left"] \/ ~controller["right"]))
          => steer'.targetHandlebarRotation = 0]_vars

\* both hands attached, the left controller gone, the right controller
\* across the left one's last position, and the target neutral
C31_Witness ==
    /\ areBothHandsAttached(World)
    /\ ~controller["left"] /\ controller["right"]
    /\ steer.position["right"].x < steer.position["left"].x
    /\ steer.targetHandlebarRotation = 0

(***************************************************************************)
(* C32.  For each hand h, after every GripSystem.update(): attachedSide = h *)
(* if isAttached is true and attachedSide = null if isAttached is false (a  *)
(* hand is never recorded as attached to the opposite side), and on every   *)
(* detach isAttached, attachedSide and attachmentOffset are all cleared     *)
(* together: detachController clears the three in every reachable state,    *)
(* and a hand that is not attached has all three at their cleared values.   *)
(***************************************************************************)
C32_AttachmentFieldsAgree ==
    \A h \in Hands :
        /\ grip[h].isAttached => grip[h].attachedSide = h
        /\ ~grip[h].isAttached
           => grip[h].attachedSide = NULL /\ grip[h].attachmentOffset = 0
        /\ \E D \in {detachController(World, h).grip[h]} :
               /\ ~D.isAttached
               /\ D.attachedSide = NULL
               /\ D.attachmentOffset = 0

\* the left hand has just let go of a grip it was attached to with a
\* non-zero offset in the frame before; the right hand is still attached
C32_Witness ==
    /\ \E i \in 1..Len(gripEmitted) :
           gripEmitted[i].type = "gripEnd" /\ gripEmitted[i].hand = "left"
    /\ ~grip["left"].isAttached
    /\ grip["left"].attachedSide = NULL
    /\ grip["right"].isAttached
    /\ grip["right"].attachedSide = "right"
    /\ grip["right"].attachmentOffset # 0

(***************************************************************************)
(* C33.  At the end of every GripSystem.update(), for each hand             *)
(* state = GRIPPING implies isAttached = TRUE, so that isAttached and       *)
(* state = GRIPPING are equivalent at frame boundaries, also for a hand     *)
(* whose controller is absent.                                              *)
(***************************************************************************)
C33_GrippingIffAttached ==
    \A h \in Hands :
        /\ grip[h].state = GRIPPING => grip[h].isAttached
        /\ grip[h].isAttached <=> grip[h].state = GRIPPING

\* the right hand has gripped in the last frame while the left hand, whose
\* controller is gone, is still gripping
C33_Witness ==
    /\ grip["right"].state = GRIPPING
    /\ grip["right"].isAttached
    /\ \E i \in 1..Len(gripEmitted) :
           gripEmitted[i].type = "gripStart" /\ gripEmitted[i].hand = "right"
    /\ grip["left"].state = GRIPPING
    /\ ~controller["left"]

(***************************************************************************)
(* C34.  Every update in which a hand leaves GRIPPING performs the detach   *)
(* exactly once and requests exactly one release haptic pulse (intensity    *)
(* 0.4, 50 ms) for that hand, for both GRIPPING -> NEAR and                 *)
(* GRIPPING -> IDLE; a GRIPPING -> IDLE update additionally requests only   *)
(* the exit-proximity pulse (0.1, 30).  detachController requests the       *)
(* release pulse each time it runs, so the pulses count the detaches.       *)
(***************************************************************************)
\* the haptic pulses the last frame requested for the hand, in order
PulsesFor(h) ==
    [i \in 1..Len(SelectSeq(vibrations, LAMBDA v : v.hand = h)) |->
        <<SelectSeq(vibrations, LAMBDA v : v.hand = h)[i].intensity,
          SelectSeq(vibrations, LAMBDA v : v.hand = h)[i].timeMs>>]

ReleasePulse == <<40, 50>>
ExitPulse == <<10, 30>>

C34_OneReleasePulse ==
    \A h \in Hands :
        (\E i \in 1..Len(gripEmitted) :
             gripEmitted[i].type = "gripEnd" /\ gripEmitted[i].hand = h)
        => /\ Count(PulsesFor(h), ReleasePulse) = 1
           /\ grip[h].state = NEAR => PulsesFor(h) = <<ReleasePulse>>
           /\ grip[h].state = IDLE
              => /\ Count(PulsesFor(h), ExitPulse) = 1
                 /\ Len(PulsesFor(h)) = 2

\* a hand went from GRIPPING to IDLE and was sent the release pulse twice
C34_Witness ==
    \E h \in Hands :
        /\ HandEvents(h) = <<"exitProximity", "gripEnd">>
        /\ grip[h].state = IDLE
        /\ PulsesFor(h) = <<ExitPulse, ReleasePulse, ReleasePulse>>

(***************************************************************************)
(* C35.  A stateChange event is emitted whenever the mechanic's state has   *)
(* changed: every change of state, including the returns to READY by cancel *)
(* from INITIATED, by auto-reset from CAUGHT/FAILED and by manual           *)
(* resetToReady(), produces exactly one stateChange whose previousState and *)
(* currentState are the old and the new state.  For every step: the         *)
(* stateChange events it emits are, in order, the changes of state it made. *)
(***************************************************************************)
\* the (previousState, currentState) pairs of the stateChange events of the step
StateChanges ==
    [i \in 1..Len(SelectSeq(emitted, LAMBDA e : e.type = "stateChange")) |->
        <<SelectSeq(emitted, LAMBDA e : e.type = "stateChange")[i].previousState,
          SelectSeq(emitted, LAMBDA e : e.type = "stateChange")[i].currentState>>]

C35_StateChangePerChange ==
    StateChanges = [i \in 1..Len(writes) |-> <<writes[i].from, writes[i].to>>]

\* the auto-reset after a catch: CAUGHT -> READY, and no event at all
C35_Witness ==
    /\ writes = <<[from |-> CAUGHT, to |-> READY, validated |-> FALSE]>>
    /\ emitted = <<>>
    /\ manualResets = 0
    /\ mech = InitMech

(***************************************************************************)
(* C36.  At the end of every GripSystem.update() in which the mechanic's    *)
(* state is INITIATED, the initiating hand is not attached and the other    *)
(* hand is attached (exactly one hand is attached), provided resetToReady() *)
(* is not called externally.  Stated for GripSystem.update() applied with   *)
(* every input in every reachable state, and for the state every step       *)
(* leaves.                                                                  *)
(***************************************************************************)
\* in INITIATED, the initiating hand has let go and the other hand holds on
OnlyOtherHandAttached(W) ==
    W.mech.state = INITIATED
    => /\ W.mech.initiatingHand \in Hands
       /\ ~isHandAttached(W, W.mech.initiatingHand)
       /\ isHandAttached(W, otherHandOf(W.mech.initiatingHand))

C36_InitiatedOneHandAttached ==
    /\ OnlyOtherHandAttached(World)
    /\ \A l \in Inputs, r \in Inputs :
           \E W \in {gripUpdate(World, l, r)} : OnlyOtherHandAttached(W)

\* a later frame of an attempt the left hand began: the left hand has left
\* the zone, the right hand still grips
C36_Witness ==
    /\ mech.state = INITIATED
    /\ mech.initiatingHand = "left"
    /\ now > mech.initiationStartTime
    /\ grip["left"].state = IDLE
    /\ ~grip["left"].isAttached
    /\ grip["right"].isAttached

(***************************************************************************)
(* C37.  Every gripEnd processed while the state is INITIATED comes from    *)
(* the hand other than initiatingHand, and at the moment the mechanic       *)
(* enters SPINNING neither hand is attached.  Stated for the update of each *)
(* hand within GripSystem.update(), with every input in every reachable     *)
(* state: the left hand's update, then the right hand's update on what the  *)
(* left hand's update left.                                                 *)
(***************************************************************************)
\* the update of one hand within GripSystem.update()
HandUpdate(W, h, input) ==
    IF gripZone[h].present /\ controller[h]
    THEN updateHandGrip(W, h, input.distance, input.squeeze) ELSE W

\* the hand's update took world A to world B
ReleaseInInitiated(A, B, h) ==
    /\ (/\ A.mech.state = INITIATED
        /\ \E i \in Len(A.gripEmitted) + 1 .. Len(B.gripEmitted) :
               B.gripEmitted[i].type = "gripEnd")
       => /\ h # A.mech.initiatingHand
          /\ B.mech.state = SPINNING
    /\ (A.mech.state # SPINNING /\ B.mech.state = SPINNING)
       => /\ A.mech.state = INITIATED
          /\ \A k \in Hands : ~isHandAttached(B, k)

C37_SecondReleaseFromOtherHand ==
    \A l \in Inputs, r \in Inputs :
        \E W1 \in {HandUpdate(World, "left", l)} :
            \E W2 \in {HandUpdate(W1, "right", r)} :
                /\ ReleaseInInitiated(World, W1, "left")
                /\ ReleaseInInitiated(W1, W2, "right")
                /\ W2 = gripUpdate(World, l, r)

\* the right hand has just let go, after the left hand began the attempt in
\* an earlier frame: SPINNING with no hand attached
C37_Witness ==
    /\ mech.state = SPINNING
    /\ mech.initiatingHand = "left"
    /\ TypesOf(emitted) = <<"stateChange", "spinning">>
    /\ HandEvents("right") = <<"gripEnd">>
    /\ HandEvents("left") = <<>>
    /\ \A k \in Hands : ~grip[k].isAttached

(***************************************************************************)
(* C38.  If both hands leave GRIPPING in the same GripSystem.update() while *)
(* the mechanic is READY with both hands attached, the left hand's gripEnd  *)
(* is processed first: at the end of that update the state is SPINNING with *)
(* initiatingHand = left and spinDirection = counterclockwise, and          *)
(* `initiated` then `spinning` have both been emitted within that one       *)
(* frame.                                                                   *)
(***************************************************************************)
\* the positions in the frame's grip events of the hand's gripEnd
GripEndAt(events, h) ==
    {i \in 1..Len(events) : events[i].type = "gripEnd" /\ events[i].hand = h}

SuccessIn(A, B) ==
    \E i \in Len(A.emitted) + 1 .. Len(B.emitted) : B.emitted[i].type = "success"

\* the claim as made
C39_BothAttachedAtSuccess ==
    \A l \in Inputs, r \in Inputs :
        \E W1 \in {HandUpdate(World, "left", l)} :
            \E W2 \in {HandUpdate(W1, "right", r)} :
                /\ SuccessIn(World, W1) => areBothHandsAttached(W1)
                /\ SuccessIn(W1, W2) => areBothHandsAttached(W2)

\* As amended: the hand whose gripStart completes the catch is attached and
\* is not the hand recorded as firstCatchHand; the state is CAUGHT.  The
\* hand recorded as firstCatchHand need not be attached any more.
CatchCompletedBy(B, h) ==
    /\ B.mech.state = CAUGHT
    /\ isHandAttached(B, h)
    /\ B.mech.firstCatchHand = otherHandOf(h)

C39_SecondHandAttachedAtSuccess ==
    \A l \in Inputs, r \in Inputs :
        \E W1 \in {HandUpdate(World, "left", l)} :
            \E W2 \in {HandUpdate(W1, "right", r)} :
                /\ SuccessIn(World, W1) => CatchCompletedBy(W1, "left")
                /\ SuccessIn(W1, W2) => CatchCompletedBy(W2, "right")

\* the catch has just been completed by the right hand; the left hand, which
\* caught first, has let go again
C39_Witness ==
    /\ mech.state = CAUGHT
    /\ \E i \in 1..Len(emitted) : emitted[i].type = "success"
    /\ mech.firstCatchHand = "left"
    /\ grip["right"].isAttached
    /\ ~grip["left"].isAttached

(***************************************************************************)
(* C40.  Every READY -> INITIATED transition is caused by the update of a   *)
(* hand immediately before which canInitiate() was true (state READY and    *)
(* both hands attached); an attempt is never initiated from a configuration *)
(* in which only one hand, or no hand, was attached.  Stated for the update *)
(* of each hand within GripSystem.update(), with every input in every       *)
(* reachable state.                                                         *)
(***************************************************************************)
\* the hand's update, from world A to world B, began an attempt
InitiatedIn(A, B) ==
    \E i \in Len(A.emitted) + 1 .. Len(B.emitted) : B.emitted[i].type = "initiated"

C40_InitiatedFromBothAttached ==
    \A l \in Inputs, r \in Inputs :
        \E W1 \in {HandUpdate(World, "left", l)} :
            \E W2 \in {HandUpdate(W1, "right", r)} :
                /\ InitiatedIn(World, W1) <=>
                       (World.mech.state = READY /\ W1.mech.state = INITIATED)
                /\ InitiatedIn(W1, W2) <=>
                       (W1.mech.state = READY /\ W2.mech.state = INITIATED)
                /\ InitiatedIn(World, W1) => canInitiate(World)
                /\ InitiatedIn(W1, W2) => canInitiate(W1)

\* the left hand re-gripped and cancelled an attempt, and the right hand's
\* release in the same frame began the next one
C40_Witness ==
    /\ mech.state = INITIATED
    /\ mech.initiatingHand = "right"
    /\ writes = <<[from |-> INITIATED, to |-> READY, validated |-> FALSE],
                  [from |-> READY, to |-> INITIATED, validated |-> TRUE]>>
    /\ grip["left"].isAttached
    /\ ~grip["right"].isAttached

====
